---- MODULE Spec2Model ----
(***************************************************************************)
(* Voice-to-Airtable (src/src/main.py): the intent-routing and field-      *)
(* extraction pipeline.  A request runs classify -> extract -> resolve ->  *)
(* execute against three external services: the completion engine, the    *)
(* transcription engine and the Airtable store.                            *)
(*                                                                         *)
(* Representation of values.  Every scalar is a TLA+ string:               *)
(*   - None is Python's None / JSON null;                                  *)
(*   - BadJson is a JSON value of the wrong shape for any scalar field     *)
(*     (an array or an object), which pydantic refuses for str, int and    *)
(*     float fields alike;                                                 *)
(*   - a JSON number is written as its digits ("0", "30", "0.9"); text     *)
(*     values are never digit strings;                                     *)
(*   - every other string is that text.                                    *)
(* A confidence (a Python float) is an integer number of tenths.           *)
(* A Python dict is a function whose domain is its key set; a Python list  *)
(* and a concatenated text are sequences.                                  *)
(***************************************************************************)
EXTENDS Integers, Sequences, FiniteSets, TLC

VARIABLES
    env,            \* process configuration read at import time (os.getenv)
    store,          \* the system of record: leads, and the records created
    pc,             \* per request: the await the handler is suspended at
    endpoint,       \* per request: the entry point that serves it
    transcription,  \* per request: the utterance text
    intent_result,  \* per request: classify_intent's IntentResult
    extracted,      \* per request: the extractor's Extracted* object
    lead,           \* per request: find_lead_by_identifier's result
    locals,         \* per request: the executor's fields / fields_populated
    result,         \* per request: the executor's Create*Response
    response,       \* per request: the HTTP response of the handler
    calls,          \* per request: external calls issued, in order
    trace,          \* per request: components invoked, in order
    waiting         \* per request: the external call it has sent and whose
                    \* answer it has not got yet: "none", "blocking" (made
                    \* through a synchronous client) or "awaited"

vars == <<env, store, pc, endpoint, transcription, intent_result, extracted,
          lead, locals, result, response, calls, trace, waiting>>

-----------------------------------------------------------------------------
(* Bounds of the model. *)

\* how many fields of a completion's JSON object may differ from a base answer
MaxOverrides == 1
\* how many candidate records a lookup may return (the code asks for at most 5)
MaxCandidates == 2

-----------------------------------------------------------------------------
(* Values. *)

None == "<None>"
BadJson == "<array>"
Numbers == {"0", "30", "0.0", "0.5", "0.9", "1.0", "1.5", "-0.2"}

Range(s) == {s[i] : i \in DOMAIN s}

\* Python truthiness of a scalar: None, "" and 0 are falsy.
Truthy(v) == v \notin {None, "", "0", "0.0"}

\* dict.get(key, default)
Get(d, key, default) == IF key \in DOMAIN d THEN d[key] ELSE default

\* d[key] = value
Put(d, key, value) ==
    [k \in DOMAIN d \cup {key} |-> IF k = key THEN value ELSE d[k]]

EmptyDict == <<>>

-----------------------------------------------------------------------------
(* pydantic field validation (BaseModel construction, lines 95-166). *)

\* a value accepted for a field annotated str
IsStr(v) == v \notin ({None, BadJson} \cup Numbers)

\* a value accepted for a field annotated Optional[str]
IsOptStr(v) == v = None \/ IsStr(v)

\* a value accepted for a field annotated float: a number or a numeric string
IsFloat(v) == v \in Numbers

\* the float a validated value becomes, in tenths
ToFloat(v) ==
    CASE v = "0"    -> 0
      [] v = "0.0"  -> 0
      [] v = "0.5"  -> 5
      [] v = "0.9"  -> 9
      [] v = "1.0"  -> 10
      [] v = "1.5"  -> 15
      [] v = "30"   -> 300
      [] v = "-0.2" -> -2

\* a value accepted for a field annotated Optional[int]: None, an integer or
\* a string of digits
IsOptInt(v) == v \in {None, "0", "30"}

-----------------------------------------------------------------------------
(* The text of a completion, and the parsing all five callers share.       *)
(* A text is a sequence of tokens [k |-> kind, v |-> payload]:             *)
(*   "fence_json"  the characters ```json                                  *)
(*   "fence"       the characters ```                                      *)
(*   "object"      the text of a JSON object, v its members                *)
(*   "array"       the text of a JSON value that is not an object          *)
(*   "prose"       text that is not JSON                                   *)

Tok(kind) == [k |-> kind, v |-> EmptyDict]
Obj(d) == [k |-> "object", v |-> d]

HasKind(text, kind) == \E i \in DOMAIN text : text[i].k = kind

FirstIdx(text, kinds) ==
    IF \E i \in DOMAIN text : text[i].k \in kinds
    THEN CHOOSE i \in DOMAIN text :
            /\ text[i].k \in kinds
            /\ \A j \in 1..(i - 1) : text[j].k \notin kinds
    ELSE Len(text) + 1

\* text.split(sep)[0], sep matching the token kinds given
SplitHead(text, kinds) == SubSeq(text, 1, FirstIdx(text, kinds) - 1)

\* text.split(sep)[1], for a text that holds sep
SplitSecond(text, kinds) ==
    LET rest == SubSeq(text, FirstIdx(text, kinds) + 1, Len(text))
    IN  SplitHead(rest, kinds)

\* lines 353-356: the text between the first fence and the next one.
\* "```" is a prefix of "```json", so splitting on "```" also cuts at a
\* "```json".
strip_fences(text) ==
    IF HasKind(text, "fence_json")
    THEN SplitHead(SplitSecond(text, {"fence_json"}), {"fence", "fence_json"})
    ELSE IF HasKind(text, "fence")
         THEN SplitHead(SplitSecond(text, {"fence"}), {"fence"})
         ELSE text

\* json.loads(text.strip()): the text parses when it is one JSON value
JsonParses(text) == Len(text) = 1 /\ text[1].k \in {"object", "array"}

\* result.get(...) works on a dict only (a list has no .get)
IsDict(text) == JsonParses(text) /\ text[1].k = "object"

\* A completion-engine outcome: the call raises (missing API key, transport
\* or API error, empty content) or returns a text.
Raises == [ok |-> FALSE, text |-> <<>>]
Returns(text) == [ok |-> TRUE, text |-> text]

\* lines 341-358 (and the same lines of each extractor): the dict the caller
\* reads its fields from, when there is one
ParsedOk(anthropic_key, completion) ==
    /\ anthropic_key
    /\ completion.ok
    /\ IsDict(strip_fences(completion.text))

ParsedDict(completion) == strip_fences(completion.text)[1].v

-----------------------------------------------------------------------------
(* classify_intent, lines 338-368. *)

IntentResult(intent, confidence, message, lead_identifier) ==
    [intent |-> intent, confidence |-> confidence, message |-> message,
     lead_identifier |-> lead_identifier]

ErrorText == "<error text>"

\* pydantic accepts the four members (lines 95-100)
IntentResultValid(d) ==
    /\ IsStr(Get(d, "intent", "unknown"))
    /\ IsFloat(Get(d, "confidence", "0.5"))
    /\ IsOptStr(Get(d, "reasoning", None))
    /\ IsOptStr(Get(d, "lead_identifier", None))

\* classify_intent with an except branch that answers the documented
\* default confidence 0.5 instead of 0.0
classify_intent_default_confidence(anthropic_key, completion) ==
    IF /\ ParsedOk(anthropic_key, completion)
       /\ IntentResultValid(ParsedDict(completion))
    THEN LET d == ParsedDict(completion)
         IN  IntentResult(Get(d, "intent", "unknown"),
                          ToFloat(Get(d, "confidence", "0.5")),
                          Get(d, "reasoning", None),
                          Get(d, "lead_identifier", None))
    ELSE IntentResult("unknown", 5, ErrorText, None)

\* classify_intent reading its members with result["member"]: a member the
\* response lacks raises, and the except branch answers
classify_intent_requiring_members(anthropic_key, completion) ==
    IF /\ ParsedOk(anthropic_key, completion)
       /\ {"intent", "confidence"} \subseteq DOMAIN ParsedDict(completion)
       /\ IntentResultValid(ParsedDict(completion))
    THEN LET d == ParsedDict(completion)
         IN  IntentResult(d["intent"], ToFloat(d["confidence"]),
                          Get(d, "reasoning", None),
                          Get(d, "lead_identifier", None))
    ELSE IntentResult("unknown", 0, ErrorText, None)

classify_intent(anthropic_key, completion) ==
    IF /\ ParsedOk(anthropic_key, completion)
       /\ IntentResultValid(ParsedDict(completion))
    THEN LET d == ParsedDict(completion)
         IN  IntentResult(Get(d, "intent", "unknown"),
                          ToFloat(Get(d, "confidence", "0.5")),
                          Get(d, "reasoning", None),
                          Get(d, "lead_identifier", None))
    ELSE IntentResult("unknown", 0, ErrorText, None)

-----------------------------------------------------------------------------
(* The four extractors, lines 371-507.  Each reads its members with        *)
(* result.get(name), builds its pydantic object, and on any exception      *)
(* returns the object built from the transcription alone.                  *)

LeadFields == {"customer_name", "contact_phone", "contact_email",
               "property_address", "lead_source", "job_segment", "priority",
               "initial_notes"}
CallNoteFields == {"lead_identifier", "activity_type", "summary", "notes",
                   "outcome", "next_follow_up_date", "next_steps",
                   "duration_minutes"}
StatusUpdateFields == {"lead_identifier", "new_status", "reason"}
TaskFields == {"lead_identifier", "task_type", "title", "notes", "due_date",
               "priority"}

\* Extracted*(raw_transcription=transcription): every Optional member None
EmptyExtracted(fields, raw) ==
    [f \in fields \cup {"raw_transcription"} |->
        IF f = "raw_transcription" THEN raw ELSE None]

\* Extracted*(member=result.get("member"), ..., raw_transcription=...)
BuildExtracted(fields, d, raw) ==
    [f \in fields \cup {"raw_transcription"} |->
        IF f = "raw_transcription" THEN raw ELSE Get(d, f, None)]

\* pydantic validation of the members: duration_minutes is Optional[int]
\* (line 135), every other member Optional[str]
ExtractedValid(fields, d) ==
    \A f \in fields :
        IF f = "duration_minutes"
        THEN IsOptInt(Get(d, f, None))
        ELSE IsOptStr(Get(d, f, None))

\* an extractor whose object is built without validating the members
ExtractWith_unvalidated(fields, anthropic_key, completion, raw) ==
    IF ParsedOk(anthropic_key, completion)
    THEN BuildExtracted(fields, ParsedDict(completion), raw)
    ELSE EmptyExtracted(fields, raw)

ExtractWith(fields, anthropic_key, completion, raw) ==
    IF /\ ParsedOk(anthropic_key, completion)
       /\ ExtractedValid(fields, ParsedDict(completion))
    THEN BuildExtracted(fields, ParsedDict(completion), raw)
    ELSE EmptyExtracted(fields, raw)

extract_lead_fields(anthropic_key, completion, raw) ==
    ExtractWith(LeadFields, anthropic_key, completion, raw)

extract_call_note_fields(anthropic_key, completion, raw) ==
    ExtractWith(CallNoteFields, anthropic_key, completion, raw)

extract_status_update_fields(anthropic_key, completion, raw) ==
    ExtractWith(StatusUpdateFields, anthropic_key, completion, raw)

extract_task_fields(anthropic_key, completion, raw) ==
    ExtractWith(TaskFields, anthropic_key, completion, raw)

-----------------------------------------------------------------------------
(* The store (Airtable REST API), seen from its callers.                   *)

LEADS_TABLE_ID == "tblLeads"
ACTIVITIES_TABLE_ID == "tblActivities"
TASKS_TABLE_ID == "tblTasks"

\* the lead records the store holds before any request
LeadIds == {"recL1", "recL2"}

Now == "<now>"
Tomorrow == "<tomorrow>"

\* a configuration check that forgets the base id
AirtableConfigured_key_only(e) == e.AIRTABLE_API_KEY

\* all([AIRTABLE_API_KEY, CRM_BASE_ID, <table id>]): the table ids have
\* defaults (lines 79-81)
AirtableConfigured(e) == e.AIRTABLE_API_KEY /\ e.CRM_BASE_ID

\* What the store answers to one HTTP call:
\*   code   the status code, or "raise" when the call raises (transport
\*          error, timeout)
\*   body   "id": a JSON object with an "id" member; "noid": a JSON object
\*          without one; "malformed": not JSON (response.json() raises)
StoreAnswers ==
    { [code |-> "200", body |-> "id"],
      [code |-> "200", body |-> "noid"],
      [code |-> "200", body |-> "malformed"],
      [code |-> "422", body |-> "id"],
      [code |-> "raise", body |-> "id"] }

\* the store applies a write it answers with a success status
Applied(answer) == answer.code = "200"

\* the id the store gives the n-th record it creates
NewId(n) == CASE n = 1 -> "recN1" [] n = 2 -> "recN2" [] n = 3 -> "recN3"
              [] OTHER -> "recN4"

\* an external call, as logged in calls: what was asked (fields is the JSON
\* body of a write) and what the service answered
Call(service, method, table, target, fields, answer) ==
    [service |-> service, method |-> method, table |-> table,
     target |-> target, fields |-> fields, answer |-> answer]

-----------------------------------------------------------------------------
(* find_lead_by_identifier, lines 510-552.                                 *)
(* A lookup answer adds the candidate records, in the store's order.       *)

NoEntity == EmptyDict    \* the function's None

Entity(id, fields) ==
    [id |-> id,
     name |-> Get(fields, "Customer Name", "Unknown"),
     fields |-> fields]

\* a resolver that falls back to a lead of the table when the lookup fails
find_lead_by_identifier_fallback(e, answer, leads) ==
    IF ~AirtableConfigured(e) THEN NoEntity
    ELSE IF answer.code = "200" /\ answer.body # "malformed"
         THEN IF answer.records # <<>>
              THEN Entity(answer.records[1], leads[answer.records[1]])
              ELSE NoEntity
         ELSE Entity("recL1", leads["recL1"])

\* a resolver that selects the last candidate the store returned
find_lead_by_identifier_last(e, answer, leads) ==
    IF ~AirtableConfigured(e) THEN NoEntity
    ELSE IF answer.code = "200" /\ answer.body # "malformed"
              /\ answer.records # <<>>
         THEN Entity(answer.records[Len(answer.records)],
                     leads[answer.records[Len(answer.records)]])
         ELSE NoEntity

\* answer: [code, body, records], records a sequence of lead ids; leads: the
\* leads table at the time of the call
find_lead_by_identifier(e, answer, leads) ==
    IF ~AirtableConfigured(e) THEN NoEntity
    ELSE IF answer.code = "200" /\ answer.body # "malformed"
              /\ answer.records # <<>>
         THEN Entity(answer.records[1], leads[answer.records[1]])
         ELSE NoEntity

\* a resolver that creates the lead it did not find
find_lead_calls_creating(e, identifier, answer) ==
    IF AirtableConfigured(e)
    THEN <<Call("airtable", "GET", LEADS_TABLE_ID, "",
                [filterByFormula |-> identifier, maxRecords |-> "5"],
                answer)>>
         \o (IF answer.records = <<>>
             THEN <<Call("airtable", "POST", LEADS_TABLE_ID, "",
                         [k \in {"Customer Name"} |-> identifier],
                         [code |-> "200", body |-> "id"])>>
             ELSE <<>>)
    ELSE <<>>

\* the calls the function issues: one filtered list request (lines 518-529)
find_lead_calls(e, identifier, answer) ==
    IF AirtableConfigured(e)
    THEN <<Call("airtable", "GET", LEADS_TABLE_ID, "",
                [filterByFormula |-> identifier, maxRecords |-> "5"],
                answer)>>
    ELSE <<>>

-----------------------------------------------------------------------------
(* The executors' field sets.  acc is the pair of locals every executor    *)
(* builds: the fields dict sent to the store and the fields_populated      *)
(* list.                                                                   *)

NoFields == [fields |-> EmptyDict, fields_populated |-> <<>>]

\* fields[key] = value; fields_populated.append(label)
Add(acc, key, value, label) ==
    [fields |-> Put(acc.fields, key, value),
     fields_populated |-> Append(acc.fields_populated, label)]

\* if value: fields[key] = value; fields_populated.append(key)
AddIfSet(acc, key, value) ==
    IF Truthy(value) THEN Add(acc, key, value, key) ELSE acc

\* the "\n\n---\n" that separates a note from what precedes it
Sep == "<---->"
\* "Voice transcription (<now>):\n<raw>"
VoiceNote(raw) == <<"Voice transcription", Now, raw>>

valid_sources == {"Referral", "Website", "Walk-in", "Repeat Customer",
                  "Trade Show", "Social Media", "Other"}

valid_statuses == {"New", "Contacted", "Qualified",
                   "Converted to Opportunity", "Lost"}

\* a lead payload that sends the extracted source as it is
LeadPayload_source_unchecked(l) ==
    LET a1 == AddIfSet(NoFields, "Customer Name", l.customer_name)
        a2 == AddIfSet(a1, "Property Address", l.property_address)
        a3 == AddIfSet(a2, "Contact Phone", l.contact_phone)
        a4 == AddIfSet(a3, "Contact Email", l.contact_email)
        a5 == AddIfSet(a4, "Lead Source", l.lead_source)
        a6 == AddIfSet(a5, "Job Segment", l.job_segment)
        a7 == AddIfSet(a6, "Priority", l.priority)
        a8 == Add(a7, "Status", "New", "Status")
        notes_parts == IF Truthy(l.initial_notes)
                       THEN <<l.initial_notes, "\n">>
                       ELSE <<>>
    IN  Add(a8, "Initial Notes",
            notes_parts \o <<Sep>> \o VoiceNote(l.raw_transcription),
            "Initial Notes")

\* a lead payload whose voice note replaces the extracted notes
LeadPayload_notes_overwritten(l) ==
    LET a1 == AddIfSet(NoFields, "Customer Name", l.customer_name)
        a2 == AddIfSet(a1, "Property Address", l.property_address)
        a3 == AddIfSet(a2, "Contact Phone", l.contact_phone)
        a4 == AddIfSet(a3, "Contact Email", l.contact_email)
        a5 == IF Truthy(l.lead_source)
              THEN IF l.lead_source \in valid_sources
                   THEN Add(a4, "Lead Source", l.lead_source, "Lead Source")
                   ELSE Add(a4, "Lead Source", "Other",
                            "Lead Source (mapped to Other)")
              ELSE a4
        a6 == AddIfSet(a5, "Job Segment", l.job_segment)
        a7 == AddIfSet(a6, "Priority", l.priority)
        a8 == Add(a7, "Status", "New", "Status")
    IN  Add(a8, "Initial Notes", <<Sep>> \o VoiceNote(l.raw_transcription),
            "Initial Notes")

\* create_airtable_lead, lines 566-619
LeadPayload(l) ==
    LET a1 == AddIfSet(NoFields, "Customer Name", l.customer_name)
        a2 == AddIfSet(a1, "Property Address", l.property_address)
        a3 == AddIfSet(a2, "Contact Phone", l.contact_phone)
        a4 == AddIfSet(a3, "Contact Email", l.contact_email)
        a5 == IF Truthy(l.lead_source)
              THEN IF l.lead_source \in valid_sources
                   THEN Add(a4, "Lead Source", l.lead_source, "Lead Source")
                   ELSE Add(a4, "Lead Source", "Other",
                            "Lead Source (mapped to Other)")
              ELSE a4
        a6 == AddIfSet(a5, "Job Segment", l.job_segment)
        a7 == AddIfSet(a6, "Priority", l.priority)
        a8 == Add(a7, "Status", "New", "Status")
        notes_parts == IF Truthy(l.initial_notes)
                       THEN <<l.initial_notes, "\n">>
                       ELSE <<>>
    IN  Add(a8, "Initial Notes",
            notes_parts \o <<Sep>> \o VoiceNote(l.raw_transcription),
            "Initial Notes")

\* the transcription step listing "Notes" again when the notes exist
AppendTranscription_listed_twice(acc, raw) ==
    IF "Notes" \in DOMAIN acc.fields
    THEN Add(acc, "Notes", acc.fields["Notes"] \o <<Sep>> \o VoiceNote(raw),
             "Notes")
    ELSE Add(acc, "Notes", VoiceNote(raw), "Notes")

\* lines 715-720 and 906-911: the transcription is appended to the notes
AppendTranscription(acc, raw) ==
    IF "Notes" \in DOMAIN acc.fields
    THEN [acc EXCEPT !.fields =
            Put(acc.fields, "Notes", acc.fields["Notes"] \o <<Sep>> \o VoiceNote(raw))]
    ELSE Add(acc, "Notes", VoiceNote(raw), "Notes")

\* an activity payload that sets the link whatever lead_id is
ActivityPayload_always_linked(note, lead_id) ==
    LET a1 == AddIfSet(NoFields, "Activity Summary", note.summary)
        a2 == IF Truthy(note.activity_type)
              THEN Add(a1, "Activity Type", note.activity_type, "Activity Type")
              ELSE Add(a1, "Activity Type", "Call", "Activity Type (default)")
        a3 == IF Truthy(note.notes)
              THEN Add(a2, "Notes", <<note.notes>>, "Notes")
              ELSE a2
        a4 == AddIfSet(a3, "Outcome", note.outcome)
        a5 == AddIfSet(a4, "Next Follow-Up Date", note.next_follow_up_date)
        a6 == AddIfSet(a5, "Next Steps", note.next_steps)
        a7 == AddIfSet(a6, "Duration", note.duration_minutes)
        a8 == Add(a7, "Related Lead", <<lead_id>>, "Related Lead")
    IN  AppendTranscription(a8, note.raw_transcription)

\* an activity payload that leaves the type out when none was extracted
ActivityPayload_type_not_defaulted(note, lead_id) ==
    LET a1 == AddIfSet(NoFields, "Activity Summary", note.summary)
        a2 == AddIfSet(a1, "Activity Type", note.activity_type)
        a3 == IF Truthy(note.notes)
              THEN Add(a2, "Notes", <<note.notes>>, "Notes")
              ELSE a2
        a4 == AddIfSet(a3, "Outcome", note.outcome)
        a5 == AddIfSet(a4, "Next Follow-Up Date", note.next_follow_up_date)
        a6 == AddIfSet(a5, "Next Steps", note.next_steps)
        a7 == AddIfSet(a6, "Duration", note.duration_minutes)
        a8 == IF Truthy(lead_id)
              THEN Add(a7, "Related Lead", <<lead_id>>, "Related Lead")
              ELSE a7
    IN  AppendTranscription(a8, note.raw_transcription)

\* create_airtable_activity, lines 676-720
ActivityPayload(note, lead_id) ==
    LET a1 == AddIfSet(NoFields, "Activity Summary", note.summary)
        a2 == IF Truthy(note.activity_type)
              THEN Add(a1, "Activity Type", note.activity_type, "Activity Type")
              ELSE Add(a1, "Activity Type", "Call", "Activity Type (default)")
        a3 == IF Truthy(note.notes)
              THEN Add(a2, "Notes", <<note.notes>>, "Notes")
              ELSE a2
        a4 == AddIfSet(a3, "Outcome", note.outcome)
        a5 == AddIfSet(a4, "Next Follow-Up Date", note.next_follow_up_date)
        a6 == AddIfSet(a5, "Next Steps", note.next_steps)
        a7 == AddIfSet(a6, "Duration", note.duration_minutes)
        a8 == IF Truthy(lead_id)
              THEN Add(a7, "Related Lead", <<lead_id>>, "Related Lead")
              ELSE a7
    IN  AppendTranscription(a8, note.raw_transcription)

\* a task payload whose due date defaults to the day of the request
TaskPayload_due_today(task, lead_id) ==
    LET a1 == AddIfSet(NoFields, "Task Name", task.title)
        a2 == IF Truthy(task.task_type)
              THEN Add(a1, "Task Type", task.task_type, "Task Type")
              ELSE Add(a1, "Task Type", "Lead Follow-up", "Task Type (default)")
        a3 == IF Truthy(task.notes)
              THEN Add(a2, "Notes", <<task.notes>>, "Notes")
              ELSE a2
        a4 == IF Truthy(task.due_date)
              THEN Add(a3, "Due Date", task.due_date, "Due Date")
              ELSE Add(a3, "Due Date", Now, "Due Date (default: tomorrow)")
        a5 == IF Truthy(task.priority)
              THEN Add(a4, "Priority", task.priority, "Priority")
              ELSE Add(a4, "Priority", "Medium", "Priority (default)")
        a6 == Add(a5, "Status", "Not Started", "Status")
        a7 == IF Truthy(lead_id)
              THEN Add(a6, "Leads", <<lead_id>>, "Leads")
              ELSE a6
    IN  AppendTranscription(a7, task.raw_transcription)

\* create_airtable_task, lines 863-911
TaskPayload(task, lead_id) ==
    LET a1 == AddIfSet(NoFields, "Task Name", task.title)
        a2 == IF Truthy(task.task_type)
              THEN Add(a1, "Task Type", task.task_type, "Task Type")
              ELSE Add(a1, "Task Type", "Lead Follow-up", "Task Type (default)")
        a3 == IF Truthy(task.notes)
              THEN Add(a2, "Notes", <<task.notes>>, "Notes")
              ELSE a2
        a4 == IF Truthy(task.due_date)
              THEN Add(a3, "Due Date", task.due_date, "Due Date")
              ELSE Add(a3, "Due Date", Tomorrow, "Due Date (default: tomorrow)")
        a5 == IF Truthy(task.priority)
              THEN Add(a4, "Priority", task.priority, "Priority")
              ELSE Add(a4, "Priority", "Medium", "Priority (default)")
        a6 == Add(a5, "Status", "Not Started", "Status")
        a7 == IF Truthy(lead_id)
              THEN Add(a6, "Leads", <<lead_id>>, "Leads")
              ELSE a6
    IN  AppendTranscription(a7, task.raw_transcription)

\* update_airtable_lead_status, lines 777-785: the Status member
StatusPayload(update) ==
    IF Truthy(update.new_status) /\ update.new_status \in valid_statuses
    THEN Add(NoFields, "Status", update.new_status, "Status")
    ELSE NoFields

\* lines 780-792: the early return for a status outside valid_statuses
StatusRejected(update) ==
    Truthy(update.new_status) /\ update.new_status \notin valid_statuses

\* line 797: the annotation appended to the lead's notes
status_note(update) ==
    <<Sep, "Status changed to", update.new_status, Now, update.reason>>

\* lines 805-808: the notes read are extended by the annotation
NotesPayload(acc, update, answer, current) ==
    IF answer.code = "200"
    THEN Add(acc, "Initial Notes",
             Get(current, "Initial Notes", <<>>) \o status_note(update),
             "Initial Notes")
    ELSE acc

-----------------------------------------------------------------------------
(* The executors' results: CreateLeadResponse (lines 116-123) and          *)
(* CreateRecordResponse (lines 158-166).  record_name stands for lead_name *)
(* in a CreateLeadResponse, whose intent member does not exist and is kept *)
(* as "new_lead" here.                                                     *)

Response(status, intent, record_id, record_name, fields_populated, message, airtable_url) ==
    [status |-> status, intent |-> intent, record_id |-> record_id,
     record_name |-> record_name, fields_populated |-> fields_populated,
     message |-> message, airtable_url |-> airtable_url]

NoUrl == <<>>     \* airtable_url = None
Url(table, record_id) == <<"https://airtable.com", table, record_id>>

ConfigMissing(intent) ==
    Response("error", intent, None, None, <<>>,
             <<"Airtable configuration missing.">>, NoUrl)

\* the else branch and the except branch after the write
WriteFailed(intent, acc, answer) ==
    Response("error", intent, None, None, acc.fields_populated,
             IF answer.code = "raise" \/ answer.code = "200"
             THEN <<ErrorText>>
             ELSE <<"Airtable API error:", answer.code>>,
             NoUrl)

\* data.get("id") of the body of a successful create
BodyId(answer, new_id) == IF answer.body = "id" THEN new_id ELSE None

\* lines 629-662, 729-763, 920-954: the result of a create, from the store's
\* answer; name and message are the success branch's record name and message
CreateResult(intent, table, acc, answer, new_id, name, message) ==
    IF answer.code = "200" /\ answer.body # "malformed"
    THEN Response("created", intent, BodyId(answer, new_id), name,
                  acc.fields_populated, message,
                  Url(table, BodyId(answer, new_id)))
    ELSE WriteFailed(intent, acc, answer)

OrElse(v, default) == IF Truthy(v) THEN v ELSE default

create_airtable_lead(e, l, answer, new_id) ==
    IF ~AirtableConfigured(e) THEN ConfigMissing("new_lead")
    ELSE CreateResult("new_lead", LEADS_TABLE_ID, LeadPayload(l), answer,
                      new_id, "Unknown",
                      <<"Successfully created lead for",
                        OrElse(l.customer_name, "unknown customer")>>)

create_airtable_activity(e, note, lead_id, answer, new_id) ==
    IF ~AirtableConfigured(e) THEN ConfigMissing("call_note")
    ELSE CreateResult("call_note", ACTIVITIES_TABLE_ID,
                      ActivityPayload(note, lead_id), answer, new_id,
                      OrElse(note.summary, "Activity logged"),
                      <<"Successfully logged activity for",
                        OrElse(note.lead_identifier, "unknown lead")>>)

create_airtable_task(e, task, lead_id, answer, new_id) ==
    IF ~AirtableConfigured(e) THEN ConfigMissing("task")
    ELSE CreateResult("task", TASKS_TABLE_ID, TaskPayload(task, lead_id),
                      answer, new_id, OrElse(task.title, "Task created"),
                      <<"Successfully created task:",
                        OrElse(task.title, "Follow-up task")>>)

\* update_airtable_lead_status, lines 817-849: the result of the PATCH
UpdateResult(update, lead_id, lead_name, acc, answer) ==
    IF answer.code = "200"
    THEN Response("updated", "status_update", lead_id, lead_name,
                  acc.fields_populated,
                  <<"Updated", lead_name, "status to", update.new_status>>,
                  Url(LEADS_TABLE_ID, lead_id))
    ELSE WriteFailed("status_update", acc, answer)

\* lines 787-792
InvalidStatus(update) ==
    Response("error", "status_update", None, None, <<>>,
             <<"Invalid status", update.new_status, "Valid options:",
               "New, Contacted, Qualified, Converted to Opportunity, Lost">>,
             NoUrl)

-----------------------------------------------------------------------------
(* The handlers' response bodies.                                          *)

Reqs == {"r1", "r2"}

RoutedIntents == {"new_lead", "call_note", "status_update", "task"}

Http(code, body) == [http |-> code, body |-> body]
NoResponse == Http(0, EmptyDict)

\* d restricted to the keys given
Only(d, keys) == [k \in keys |-> d[k]]

\* a function extended by another with a disjoint domain
Merge(f, g) ==
    [k \in DOMAIN f \cup DOMAIN g |-> IF k \in DOMAIN g THEN g[k] ELSE f[k]]

\* wispr_webhook, lines 998-1007, 1017-1026, 1036-1045, 1055-1064
WebhookResult(res, ir) ==
    [status |-> res.status, intent |-> res.intent,
     intent_confidence |-> ir.confidence, record_id |-> res.record_id,
     record_name |-> res.record_name,
     fields_populated |-> res.fields_populated, message |-> res.message,
     airtable_url |-> res.airtable_url]

\* line 1031
WebhookNoIdentifier ==
    [status |-> "error", intent |-> "status_update",
     message |-> <<"Could not identify lead to update">>]

\* line 1034
WebhookNotFound(ex) ==
    [status |-> "error", intent |-> "status_update",
     message |-> <<"Lead not found:", ex.lead_identifier>>]

\* the webhook's last branch answering "error" instead of "skipped"
WebhookSkipped_as_error(ir) ==
    [status |-> "error", intent |-> ir.intent, confidence |-> ir.confidence,
     message |-> <<"Intent", ir.intent, "not recognized.">>]

\* lines 1066-1072
WebhookSkipped(ir) ==
    [status |-> "skipped", intent |-> ir.intent, confidence |-> ir.confidence,
     message |-> <<"Intent", ir.intent, "not recognized.">>]

\* the members of the extracted object that voice_to_crm echoes
EchoedFields(intent) ==
    CASE intent = "new_lead" -> LeadFields
      [] intent = "call_note" -> CallNoteFields \ {"notes", "duration_minutes"}
      [] intent = "status_update" -> StatusUpdateFields
      [] intent = "task" -> TaskFields \ {"notes"}

\* voice_to_crm, lines 1110-1130, 1151-1171, 1205-1221, 1240-1258
VoiceResult(res, ir, ex, ld, text) ==
    LET common ==
            [success |-> res.status \in
                            (IF res.intent = "status_update"
                             THEN {"updated"} ELSE {"created"}),
             intent |-> res.intent, intent_confidence |-> ir.confidence,
             record_id |-> res.record_id, record_name |-> res.record_name,
             airtable_url |-> res.airtable_url, transcription |-> text,
             extracted_fields |-> Only(ex, EchoedFields(res.intent)),
             fields_populated |-> res.fields_populated,
             message |-> res.message]
        found == ld # NoEntity /\ Truthy(ld.id)
    IN  CASE res.intent = "new_lead" -> common
          [] res.intent = "call_note" ->
                Merge(common,
                      [linked_lead |-> IF found THEN ld.name ELSE None,
                       lead_found |-> found])
          [] res.intent = "status_update" ->
                Merge(common, [new_status |-> ex.new_status])
          [] res.intent = "task" ->
                Merge(common,
                      [linked_lead |-> IF found THEN ld.name ELSE None])

\* lines 1180-1186
VoiceNoIdentifier(ir, text) ==
    [success |-> FALSE, intent |-> "status_update",
     intent_confidence |-> ir.confidence, transcription |-> text,
     message |-> <<"Could not identify which lead to update.">>]

\* lines 1190-1200
VoiceNotFound(ir, ex, text) ==
    [success |-> FALSE, intent |-> "status_update",
     intent_confidence |-> ir.confidence, transcription |-> text,
     extracted_fields |-> Only(ex, {"lead_identifier", "new_status"}),
     message |-> <<"Could not find lead matching", ex.lead_identifier>>]

\* lines 1260-1268
VoiceSkipped(ir, text) ==
    [success |-> FALSE, intent |-> ir.intent,
     intent_confidence |-> ir.confidence, transcription |-> text,
     message |-> <<"Intent", ir.intent, "not recognized. Try: ...">>]

\* confirm_lead, lines 1346-1352
ConfirmBody(res, ex) ==
    [success |-> res.status = "created", record_id |-> res.record_id,
     airtable_url |-> res.airtable_url, lead_name |-> ex.customer_name,
     message |-> res.message]

\* the body each entry point returns at each of the router's exits
ResultBody(ep, res, ir, ex, ld, text) ==
    IF ep = "webhook" THEN WebhookResult(res, ir)
    ELSE IF ep = "confirm" THEN ConfirmBody(res, ex)
    ELSE VoiceResult(res, ir, ex, ld, text)

NoIdentifierBody(ep, ir, text) ==
    IF ep = "webhook" THEN WebhookNoIdentifier ELSE VoiceNoIdentifier(ir, text)

\* a router that answers a lead not found like a missing identifier
NotFoundBody_as_no_identifier(ep, ir, ex, text) ==
    IF ep = "webhook" THEN WebhookNoIdentifier ELSE VoiceNoIdentifier(ir, text)

NotFoundBody(ep, ir, ex, text) ==
    IF ep = "webhook" THEN WebhookNotFound(ex) ELSE VoiceNotFound(ir, ex, text)

SkippedBody(ep, ir, text) ==
    IF ep = "webhook" THEN WebhookSkipped(ir) ELSE VoiceSkipped(ir, text)

\* transcribe_only, line 1275
TranscribeOnlyBody(text) == [transcription |-> text]

\* preview_lead, lines 1293-1299
PreviewRejected(ir, text) ==
    [success |-> FALSE, step |-> "intent_classification", intent |-> ir.intent,
     transcription |-> text,
     message |-> <<"Didn't sound like a new lead. Try saying ...">>]

\* preview_lead, lines 1304-1318
PreviewBody(ex, text) ==
    [success |-> TRUE, transcription |-> text,
     extracted_fields |-> Only(ex, LeadFields),
     message |-> <<"Ready to create lead. Review and confirm.">>]

-----------------------------------------------------------------------------
(* What the environment can do: utterances, completions, store answers.    *)

Utterances == {"", "Mark Smith as qualified"}

Absent == "<absent>"    \* marks a member the JSON object does not have

\* the JSON object with the members of a that are not Absent
DictOf(a) == [k \in {x \in DOMAIN a : a[x] # Absent} |-> a[k]]

\* the texts a completion may wrap a JSON value tok in
Wrappings(tok) ==
    { <<tok>>,
      <<Tok("fence_json"), tok, Tok("fence")>>,
      <<Tok("fence"), tok, Tok("fence")>>,
      <<Tok("prose"), Tok("fence_json"), tok, Tok("fence"), Tok("prose")>>,
      <<Tok("prose"), Tok("fence"), tok, Tok("fence"), Tok("prose")>>,
      <<Tok("fence_json"), tok>>,
      <<Tok("prose"), tok>>,
      <<tok, Tok("fence")>>,
      <<Tok("fence"), Tok("prose"), Tok("fence"), tok>> }

\* completions that carry no JSON object at all
BrokenCompletions ==
    { Raises, Returns(<<>>), Returns(<<Tok("prose")>>),
      Returns(<<Tok("array")>>),
      Returns(<<Tok("fence_json"), Tok("prose"), Tok("fence")>>) }

\* every answer the classifier's completion may give
AllClassifyDicts ==
    { DictOf([intent |-> i, confidence |-> c, reasoning |-> m,
              lead_identifier |-> l]) :
        i \in RoutedIntents \cup {"unknown", "create_lead", Absent, None, BadJson},
        c \in {"0.9", "0.0", "1.0", "1.5", "-0.2", "high", Absent, None, BadJson},
        m \in {"why", Absent},
        l \in {"Smith", None, Absent} }

AllClassifyCompletions ==
    BrokenCompletions \cup
    UNION { {Returns(t) : t \in Wrappings(Obj(d))} : d \in AllClassifyDicts }

\* the classifier answers the router is run on: one per intent value, in a
\* plain and in a fenced text, and the broken ones
RouterClassifyDicts ==
    { [intent |-> i, confidence |-> "0.9", reasoning |-> "why",
       lead_identifier |-> None] : i \in RoutedIntents \cup {"unknown", "create_lead"} }
    \cup { [reasoning |-> "why"], [intent |-> "task", confidence |-> "1.5"] }

RouterClassifyCompletions ==
    BrokenCompletions \cup
    UNION { {Returns(<<Obj(d)>>),
             Returns(<<Tok("prose"), Tok("fence_json"), Obj(d), Tok("fence")>>)} :
            d \in RouterClassifyDicts }

\* a usual value of each extracted member
Typical(f) ==
    CASE f = "customer_name" -> "Sarah Johnson"
      [] f = "contact_phone" -> "555-123-4567"
      [] f = "contact_email" -> "sarah@example.com"
      [] f = "property_address" -> "123 Seaside Drive"
      [] f = "lead_source" -> "Referral"
      [] f = "job_segment" -> "RR"
      [] f = "priority" -> "High"
      [] f = "initial_notes" -> "interested in custom doors"
      [] f = "lead_identifier" -> "Smith"
      [] f = "activity_type" -> "Meeting"
      [] f = "summary" -> "talked about doors"
      [] f = "notes" -> "she wants to move forward"
      [] f = "outcome" -> "Successful"
      [] f = "next_follow_up_date" -> "2026-01-15"
      [] f = "next_steps" -> "send quote"
      [] f = "duration_minutes" -> "30"
      [] f = "new_status" -> "Qualified"
      [] f = "reason" -> "budget approved"
      [] f = "task_type" -> "Call"
      [] f = "title" -> "call back"
      [] f = "due_date" -> "2026-01-20"

\* the other values a member may take
Alternatives(f) ==
    {None, "", BadJson, Typical(f)} \cup
    (CASE f = "lead_source" -> {"Google"}
       [] f = "new_status" -> {"Bogus", "Lost"}
       [] f = "duration_minutes" -> {"0", "half an hour"}
       [] OTHER -> {})

RECURSIVE Overridden(_, _, _)
\* the dicts that differ from base in at most n members
Overridden(fields, base, n) ==
    IF n = 0 THEN {base}
    ELSE LET prev == Overridden(fields, base, n - 1)
         IN  prev \cup
             UNION { UNION { {[d EXCEPT ![f] = v] : v \in Alternatives(f)} :
                             f \in fields } : d \in prev }

ExtractDicts(fields) ==
    Overridden(fields, [f \in fields |-> None], MaxOverrides)
    \cup Overridden(fields, [f \in fields |-> Typical(f)], MaxOverrides)

\* every answer an extractor's completion may give
ExtractCompletions(fields) ==
    BrokenCompletions \cup
    { Returns(<<Obj(d)>>) : d \in ExtractDicts(fields) } \cup
    { Returns(t) : t \in Wrappings(Obj([f \in fields |-> Typical(f)])) }

\* the answers to a lookup: a store answer and the candidates it lists
RECURSIVE SeqsUpTo(_, _)
SeqsUpTo(S, n) ==
    IF n = 0 THEN {<<>>}
    ELSE LET shorter == SeqsUpTo(S, n - 1)
         IN  shorter \cup {Append(q, x) : q \in shorter, x \in S}

LookupAnswers ==
    { [code |-> "200", body |-> "id", records |-> q] :
        q \in SeqsUpTo(LeadIds, MaxCandidates) }
    \cup { [code |-> a.code, body |-> a.body, records |-> <<>>] :
            a \in StoreAnswers \ {[code |-> "200", body |-> "id"],
                                  [code |-> "200", body |-> "noid"]} }

-----------------------------------------------------------------------------
(* State.                                                                  *)

NoIntent == IntentResult(None, 0, None, None)
NoResult == Response("none", None, None, None, <<>>, <<>>, NoUrl)

InitialLeads ==
    [id \in LeadIds |->
        IF id = "recL1"
        THEN [k \in {"Customer Name", "Status", "Initial Notes"} |->
                CASE k = "Customer Name" -> "Mark Smith"
                  [] k = "Status" -> "New"
                  [] k = "Initial Notes" -> <<"first contact">>]
        ELSE [k \in {"Contact Phone", "Status"} |->
                IF k = "Status" THEN "Contacted" ELSE "555-000-1111"]]

Init ==
    /\ env \in [ANTHROPIC_API_KEY : BOOLEAN, AIRTABLE_API_KEY : BOOLEAN,
                CRM_BASE_ID : BOOLEAN]
    /\ store = [leads |-> InitialLeads, created |-> <<>>]
    /\ pc = [r \in Reqs |-> "idle"]
    /\ endpoint = [r \in Reqs |-> None]
    /\ transcription = [r \in Reqs |-> None]
    /\ intent_result = [r \in Reqs |-> NoIntent]
    /\ extracted = [r \in Reqs |-> EmptyDict]
    /\ lead = [r \in Reqs |-> NoEntity]
    /\ locals = [r \in Reqs |-> NoFields]
    /\ result = [r \in Reqs |-> NoResult]
    /\ response = [r \in Reqs |-> NoResponse]
    /\ calls = [r \in Reqs |-> <<>>]
    /\ trace = [r \in Reqs |-> <<>>]
    /\ waiting = [r \in Reqs |-> "none"]

\* the handler of r runs on: the call it was waiting on, if any, is over
Settle(r) == waiting' = [waiting EXCEPT ![r] = "none"]

\* the handler returns body with status 200
Return(r, body) ==
    /\ response' = [response EXCEPT ![r] = Http(200, body)]
    /\ pc' = [pc EXCEPT ![r] = "done"]
    /\ Settle(r)

\* an exception that ends the handler without any answer to the caller
Fail_unanswered(r) ==
    /\ pc' = [pc EXCEPT ![r] = "crashed"]
    /\ UNCHANGED response
    /\ Settle(r)

\* an exception leaves the handler: the server answers 500
Fail(r) ==
    /\ response' = [response EXCEPT ![r] = Http(500, [detail |-> <<ErrorText>>])]
    /\ pc' = [pc EXCEPT ![r] = "done"]
    /\ Settle(r)

Goto(r, label) ==
    /\ pc' = [pc EXCEPT ![r] = label]
    /\ UNCHANGED response
    /\ Settle(r)

Invoke(r, component) == trace' = [trace EXCEPT ![r] = Append(@, component)]

Issue(r, cs) == calls' = [calls EXCEPT ![r] = @ \o cs]

\* the one messages.create call of classify_intent or of an extractor: it is
\* issued only when get_anthropic_client() finds the key (lines 58-65)
CompletionCalls(e, purpose, completion) ==
    IF e.ANTHROPIC_API_KEY
    THEN <<Call("anthropic", "messages.create", "", purpose, EmptyDict,
                completion)>>
    ELSE <<>>

-----------------------------------------------------------------------------
(* The entry points.                                                       *)

\* POST /webhook/wispr (line 982), /test/classify (line 1355) or
\* /test/extract (line 1362) with a transcription, or POST /api/voice-crm
\* (line 1075), /api/transcribe (line 1271) or /api/preview-lead (line 1278)
\* with an audio file
Receive(r, ep, text) ==
    /\ pc[r] = "idle"
    /\ endpoint' = [endpoint EXCEPT ![r] = ep]
    /\ IF ep \in {"webhook", "test_classify", "test_extract"}
       THEN /\ transcription' = [transcription EXCEPT ![r] = text]
            /\ Goto(r, IF ep = "test_extract" THEN "extract" ELSE "classify")
       ELSE /\ UNCHANGED transcription
            /\ Goto(r, "transcribe")
    /\ UNCHANGED <<env, store, intent_result, extracted, lead, locals, result,
                   calls, trace>>

\* POST /api/confirm-lead (lines 1327-1342) with a transcription and a dict
\* of fields: the ExtractedLead is built from the dict's members, outside
\* any try, so a member pydantic refuses ends the request
ReceiveConfirm(r, text, fields) ==
    /\ pc[r] = "idle"
    /\ endpoint' = [endpoint EXCEPT ![r] = "confirm"]
    /\ transcription' = [transcription EXCEPT ![r] = text]
    /\ IF ExtractedValid(LeadFields, fields)
       THEN /\ extracted' = [extracted EXCEPT ![r] =
                                BuildExtracted(LeadFields, fields, text)]
            /\ Goto(r, "execute")
       ELSE /\ UNCHANGED extracted
            /\ Fail(r)
    /\ UNCHANGED <<env, store, intent_result, lead, locals, result, calls,
                   trace>>

\* transcribe_audio, lines 310-335: the text, or HTTPException(500);
\* POST /api/transcribe (lines 1271-1275) returns the text itself
Transcribe(r, ok, text) ==
    /\ pc[r] = "transcribe"
    /\ Invoke(r, "transcribe_audio")
    /\ Issue(r, <<Call("openai", "transcriptions.create", "", "", EmptyDict,
                       [ok |-> ok, text |-> <<text>>])>>)
    /\ IF ok
       THEN /\ transcription' = [transcription EXCEPT ![r] = text]
            /\ IF endpoint[r] = "transcribe_only"
               THEN Return(r, TranscribeOnlyBody(text))
               ELSE Goto(r, "classify")
       ELSE /\ UNCHANGED transcription
            /\ Fail(r)
    /\ UNCHANGED <<env, store, endpoint, intent_result, extracted, lead,
                   locals, result>>

\* lines 991-995 and 1066-1072 (1100-1104 and 1260-1268): classify, then
\* route on the intent; POST /test/classify (lines 1355-1359) returns the
\* IntentResult itself; preview_lead (lines 1290-1299) goes on only for the
\* intent "create_lead"
Classify(r, completion) ==
    /\ pc[r] = "classify"
    /\ LET ir == classify_intent(env.ANTHROPIC_API_KEY, completion)
       IN  /\ intent_result' = [intent_result EXCEPT ![r] = ir]
           /\ IF endpoint[r] = "test_classify" THEN Return(r, ir)
              ELSE IF endpoint[r] = "preview"
                   THEN IF ir.intent # "create_lead"
                        THEN Return(r, PreviewRejected(ir, transcription[r]))
                        ELSE Goto(r, "extract")
              ELSE IF ir.intent \in RoutedIntents THEN Goto(r, "extract")
              ELSE Return(r, SkippedBody(endpoint[r], ir, transcription[r]))
    /\ Invoke(r, "classify_intent")
    /\ Issue(r, CompletionCalls(env, "classify", completion))
    /\ UNCHANGED <<env, store, endpoint, transcription, extracted, lead,
                   locals, result>>

\* the extractor of an intent
ExtractorName(intent) ==
    CASE intent = "new_lead" -> "extract_lead_fields"
      [] intent = "call_note" -> "extract_call_note_fields"
      [] intent = "status_update" -> "extract_status_update_fields"
      [] intent = "task" -> "extract_task_fields"

ExtractorFields(intent) ==
    CASE intent = "new_lead" -> LeadFields
      [] intent = "call_note" -> CallNoteFields
      [] intent = "status_update" -> StatusUpdateFields
      [] intent = "task" -> TaskFields

\* a router whose call_note branch calls the task extractor
RunExtractor_wrong_branch(intent, anthropic_key, completion, raw) ==
    CASE intent = "new_lead" ->
            extract_lead_fields(anthropic_key, completion, raw)
      [] intent = "call_note" ->
            extract_task_fields(anthropic_key, completion, raw)
      [] intent = "status_update" ->
            extract_status_update_fields(anthropic_key, completion, raw)
      [] intent = "task" ->
            extract_task_fields(anthropic_key, completion, raw)

RunExtractor(intent, anthropic_key, completion, raw) ==
    CASE intent = "new_lead" ->
            extract_lead_fields(anthropic_key, completion, raw)
      [] intent = "call_note" ->
            extract_call_note_fields(anthropic_key, completion, raw)
      [] intent = "status_update" ->
            extract_status_update_fields(anthropic_key, completion, raw)
      [] intent = "task" ->
            extract_task_fields(anthropic_key, completion, raw)

\* a voice entry point that extracts a lead whatever the intent is
ExtractedIntent_voice_to_lead(r) ==
    IF endpoint[r] \in {"test_extract", "preview", "voice_crm"}
    THEN "new_lead"
    ELSE intent_result[r].intent

\* the intent whose extractor the handler calls: POST /test/extract and
\* preview_lead call extract_lead_fields (lines 1365, 1302)
ExtractedIntent(r) ==
    IF endpoint[r] \in {"test_extract", "preview"} THEN "new_lead"
    ELSE intent_result[r].intent

\* lines 996, 1010-1012, 1029-1031, 1048-1050: extract, then decide whether
\* a lead has to be looked up; POST /test/extract (lines 1362-1366) returns
\* the extracted object itself, preview_lead (lines 1302-1318) its members
Extract(r, completion) ==
    /\ pc[r] = "extract"
    /\ LET intent == ExtractedIntent(r)
           ex == RunExtractor(intent, env.ANTHROPIC_API_KEY, completion,
                              transcription[r])
       IN  /\ extracted' = [extracted EXCEPT ![r] = ex]
           /\ Invoke(r, ExtractorName(intent))
           /\ IF endpoint[r] = "test_extract" THEN Return(r, ex)
              ELSE IF endpoint[r] = "preview"
                   THEN Return(r, PreviewBody(ex, transcription[r]))
              ELSE IF intent = "new_lead" THEN Goto(r, "execute")
              ELSE IF Truthy(ex.lead_identifier) THEN Goto(r, "resolve")
              ELSE IF intent = "status_update"
                   THEN Return(r, NoIdentifierBody(endpoint[r], intent_result[r],
                                                   transcription[r]))
                   ELSE Goto(r, "execute")
    /\ Issue(r, CompletionCalls(env, "extract", completion))
    /\ UNCHANGED <<env, store, endpoint, transcription, intent_result, lead,
                   locals, result>>

\* lines 1013-1015, 1032-1034, 1051-1053: look the lead up
Resolve(r, answer) ==
    /\ pc[r] = "resolve"
    /\ LET ld == find_lead_by_identifier(env, answer, store.leads)
       IN  /\ lead' = [lead EXCEPT ![r] = ld]
           /\ IF intent_result[r].intent = "status_update" /\ ld = NoEntity
              THEN Return(r, NotFoundBody(endpoint[r], intent_result[r],
                                          extracted[r], transcription[r]))
              ELSE Goto(r, "execute")
    /\ Invoke(r, "find_lead_by_identifier")
    /\ Issue(r, find_lead_calls(env, extracted[r].lead_identifier, answer))
    /\ UNCHANGED <<env, store, endpoint, transcription, intent_result,
                   extracted, locals, result>>

-----------------------------------------------------------------------------
(* The executors, as the router calls them.                                *)

\* lead["id"] if a lead was found, else None (lines 1011-1015, 1049-1053)
LeadIdOf(ld) == IF ld = NoEntity THEN None ELSE ld.id

\* the store after a create it accepted
StoreCreate(st, table, fields) ==
    [st EXCEPT !.created =
        Append(@, [table |-> table, id |-> NewId(Len(@) + 1),
                   fields |-> fields])]

\* the store after an update of a lead it accepted
StoreUpdate(st, id, fields) ==
    [st EXCEPT !.leads[id] = Merge(@, fields)]

\* a create that is sent again when the store does not accept it
PostCalls_retry(e, table, acc, answer) ==
    IF AirtableConfigured(e)
    THEN IF answer.code = "200"
         THEN <<Call("airtable", "POST", table, "", acc.fields, answer)>>
         ELSE <<Call("airtable", "POST", table, "", acc.fields, answer),
                Call("airtable", "POST", table, "", acc.fields, answer)>>
    ELSE <<>>

\* the POST of a create: issued once the configuration check has passed
PostCalls(e, table, acc, answer) ==
    IF AirtableConfigured(e)
    THEN <<Call("airtable", "POST", table, "", acc.fields, answer)>>
    ELSE <<>>

\* a create executor has run: its result is returned to the caller
Created(r, table, acc, res, answer) ==
    /\ pc[r] = "execute"
    /\ result' = [result EXCEPT ![r] = res]
    /\ Issue(r, PostCalls(env, table, acc, answer))
    /\ store' = IF AirtableConfigured(env) /\ Applied(answer)
                THEN StoreCreate(store, table, acc.fields)
                ELSE store
    /\ Return(r, ResultBody(endpoint[r], res, intent_result[r], extracted[r],
                            lead[r], transcription[r]))
    /\ UNCHANGED <<env, endpoint, transcription, intent_result, extracted,
                   lead, locals>>

\* a lead executor that sends nothing when the store already holds a record
\* with the same fields
CreateLead_deduplicating(r, answer) ==
    /\ intent_result[r].intent = "new_lead" \/ endpoint[r] = "confirm"
    /\ Invoke(r, "create_airtable_lead")
    /\ IF \E i \in DOMAIN store.created :
             store.created[i].fields = LeadPayload(extracted[r]).fields
       THEN /\ pc[r] = "execute"
            /\ result' = [result EXCEPT ![r] =
                            create_airtable_lead(env, extracted[r], answer,
                                                 NewId(Len(store.created)))]
            /\ Return(r, ResultBody(endpoint[r], result'[r],
                                    intent_result[r], extracted[r], lead[r],
                                    transcription[r]))
            /\ UNCHANGED <<env, store, endpoint, transcription,
                           intent_result, extracted, lead, locals, calls>>
       ELSE Created(r, LEADS_TABLE_ID, LeadPayload(extracted[r]),
                    create_airtable_lead(env, extracted[r], answer,
                                         NewId(Len(store.created) + 1)),
                    answer)

\* lines 997-1007 (1108-1130), and 1344-1352 of confirm_lead
CreateLead(r, answer) ==
    /\ intent_result[r].intent = "new_lead" \/ endpoint[r] = "confirm"
    /\ Invoke(r, "create_airtable_lead")
    /\ Created(r, LEADS_TABLE_ID, LeadPayload(extracted[r]),
               create_airtable_lead(env, extracted[r], answer,
                                    NewId(Len(store.created) + 1)),
               answer)

\* lines 1016-1026 (1149-1171)
CreateActivity(r, answer) ==
    /\ intent_result[r].intent = "call_note"
    /\ Invoke(r, "create_airtable_activity")
    /\ Created(r, ACTIVITIES_TABLE_ID,
               ActivityPayload(extracted[r], LeadIdOf(lead[r])),
               create_airtable_activity(env, extracted[r], LeadIdOf(lead[r]),
                                        answer, NewId(Len(store.created) + 1)),
               answer)

\* lines 1054-1064 (1238-1258)
CreateTask(r, answer) ==
    /\ intent_result[r].intent = "task"
    /\ Invoke(r, "create_airtable_task")
    /\ Created(r, TASKS_TABLE_ID,
               TaskPayload(extracted[r], LeadIdOf(lead[r])),
               create_airtable_task(env, extracted[r], LeadIdOf(lead[r]),
                                    answer, NewId(Len(store.created) + 1)),
               answer)

\* the executor returned res without writing
Finished(r, res) ==
    /\ result' = [result EXCEPT ![r] = res]
    /\ Return(r, ResultBody(endpoint[r], res, intent_result[r], extracted[r],
                            lead[r], transcription[r]))

\* update_airtable_lead_status up to its write, lines 766-808: the
\* configuration check, the validation of the status and, when a reason was
\* extracted, the read of the lead's notes.  The read is outside any try:
\* an exception of the call or of get_response.json() leaves the executor
\* and the handler.
UpdateStatus(r, answer) ==
    /\ pc[r] = "execute"
    /\ intent_result[r].intent = "status_update"
    /\ Invoke(r, "update_airtable_lead_status")
    /\ LET update == extracted[r]
           read == Call("airtable", "GET", LEADS_TABLE_ID, lead[r].id,
                        EmptyDict, answer)
       IN  IF ~AirtableConfigured(env)
           THEN /\ Finished(r, ConfigMissing("status_update"))
                /\ UNCHANGED <<locals, calls>>
           ELSE IF StatusRejected(update)
           THEN /\ Finished(r, InvalidStatus(update))
                /\ UNCHANGED <<locals, calls>>
           ELSE IF ~Truthy(update.reason)
           THEN /\ locals' = [locals EXCEPT ![r] = StatusPayload(update)]
                /\ Goto(r, "write")
                /\ UNCHANGED <<result, calls>>
           ELSE IF answer.code = "raise"
                   \/ (answer.code = "200" /\ answer.body = "malformed")
           THEN /\ Fail(r)
                /\ Issue(r, <<read>>)
                /\ UNCHANGED <<locals, result>>
           ELSE /\ locals' = [locals EXCEPT ![r] =
                                NotesPayload(StatusPayload(update), update,
                                             answer, store.leads[lead[r].id])]
                /\ Goto(r, "write")
                /\ Issue(r, <<read>>)
                /\ UNCHANGED result
    /\ UNCHANGED <<env, store, endpoint, transcription, intent_result,
                   extracted, lead>>

\* a PATCH whose notes are rebuilt from the record as it is when the PATCH
\* is sent: the read and the write as one step
UpdateWrite_atomic(r, answer) ==
    /\ pc[r] = "write"
    /\ LET fields ==
             IF "Initial Notes" \in DOMAIN locals[r].fields
             THEN Put(locals[r].fields, "Initial Notes",
                      Get(store.leads[lead[r].id], "Initial Notes", <<>>)
                          \o status_note(extracted[r]))
             ELSE locals[r].fields
       IN  /\ Finished(r, UpdateResult(extracted[r], lead[r].id, lead[r].name,
                                       locals[r], answer))
           /\ Issue(r, <<Call("airtable", "PATCH", LEADS_TABLE_ID, lead[r].id,
                              fields, answer)>>)
           /\ store' = IF Applied(answer)
                       THEN StoreUpdate(store, lead[r].id, fields)
                       ELSE store
    /\ UNCHANGED <<env, endpoint, transcription, intent_result, extracted,
                   lead, locals, trace>>

\* update_airtable_lead_status, lines 810-849: the PATCH and its result
UpdateWrite(r, answer) ==
    /\ pc[r] = "write"
    /\ LET res == UpdateResult(extracted[r], lead[r].id, lead[r].name,
                               locals[r], answer)
       IN  Finished(r, res)
    /\ Issue(r, <<Call("airtable", "PATCH", LEADS_TABLE_ID, lead[r].id,
                       locals[r].fields, answer)>>)
    /\ store' = IF Applied(answer)
                THEN StoreUpdate(store, lead[r].id, locals[r].fields)
                ELSE store
    /\ UNCHANGED <<env, endpoint, transcription, intent_result, extracted,
                   lead, locals, trace>>

-----------------------------------------------------------------------------
(* The router: one request, through wispr_webhook or voice_to_crm.         *)

Endpoints == {"webhook", "voice_crm", "test_classify", "test_extract",
              "transcribe_only", "preview"}

\* the dicts of fields a confirm request may carry: what a preview returned,
\* edited or not, or any other JSON object
ConfirmFields ==
    LET shown == [f \in LeadFields |-> Typical(f)]
    IN  { shown, EmptyDict,
          [f \in {"customer_name"} |-> Typical(f)],
          [shown EXCEPT !["initial_notes"] = None],
          [shown EXCEPT !["initial_notes"] = ""],
          [shown EXCEPT !["lead_source"] = "Google"],
          [shown EXCEPT !["contact_phone"] = "5551234567"],
          [shown EXCEPT !["customer_name"] = BadJson] }

\* the entry points that take an audio file
AudioEndpoints == {"voice_crm", "transcribe_only", "preview"}

\* the two entry points that run the whole pipeline
RouterEndpoints == {"webhook", "voice_crm"}

Step(r) ==
    \/ \E ep \in Endpoints, text \in Utterances : Receive(r, ep, text)
    \/ \E text \in Utterances, d \in ConfirmFields : ReceiveConfirm(r, text, d)
    \/ \E ok \in BOOLEAN, text \in Utterances : Transcribe(r, ok, text)
    \/ \E c \in RouterClassifyCompletions : Classify(r, c)
    \/ /\ pc[r] = "extract"
       /\ \E c \in ExtractCompletions(ExtractorFields(ExtractedIntent(r))) :
                Extract(r, c)
    \/ \E a \in LookupAnswers : Resolve(r, a)
    \/ \E a \in StoreAnswers : CreateLead(r, a)
    \/ \E a \in StoreAnswers : CreateActivity(r, a)
    \/ \E a \in StoreAnswers : CreateTask(r, a)
    \/ \E a \in StoreAnswers : UpdateStatus(r, a)
    \/ \E a \in StoreAnswers : UpdateWrite(r, a)

Next == Step("r1")

Spec == Init /\ [][Next]_vars

\* classify_intent alone, on every answer of the completion engine:
\* POST /test/classify
NextClassify ==
    \/ \E text \in Utterances : Receive("r1", "test_classify", text)
    \/ \E c \in AllClassifyCompletions : Classify("r1", c)

SpecClassify == Init /\ [][NextClassify]_vars

\* The resolver and the four executors called directly, as a unit test
\* calls them, on every argument: an extracted object of the intent, and a
\* lead or none.
ExtractedObjects(intent) ==
    { RunExtractor(intent, TRUE, c, text) :
        c \in ExtractCompletions(ExtractorFields(intent)), text \in Utterances }

LeadArguments == {NoEntity} \cup {Entity(id, InitialLeads[id]) : id \in LeadIds}

InitExec ==
    /\ env \in [ANTHROPIC_API_KEY : {TRUE}, AIRTABLE_API_KEY : BOOLEAN,
                CRM_BASE_ID : BOOLEAN]
    /\ store = [leads |-> InitialLeads, created |-> <<>>]
    /\ \E intent \in RoutedIntents, label \in {"resolve", "execute"} :
         /\ pc = [r \in Reqs |-> IF r = "r1" THEN label ELSE "idle"]
         /\ intent_result =
                [r \in Reqs |-> IF r = "r1"
                                THEN IntentResult(intent, 9, None, None)
                                ELSE NoIntent]
         /\ \E ex \in ExtractedObjects(intent), ld \in LeadArguments :
              /\ label = "resolve" => intent # "new_lead" /\ ld = NoEntity
              /\ label = "execute" /\ intent = "status_update" => ld # NoEntity
              /\ label = "execute" /\ intent = "new_lead" => ld = NoEntity
              /\ extracted = [r \in Reqs |-> IF r = "r1" THEN ex ELSE EmptyDict]
              /\ lead = [r \in Reqs |-> IF r = "r1" THEN ld ELSE NoEntity]
              /\ transcription =
                    [r \in Reqs |-> IF r = "r1" THEN ex.raw_transcription
                                    ELSE None]
    /\ endpoint = [r \in Reqs |-> IF r = "r1" THEN "webhook" ELSE None]
    /\ locals = [r \in Reqs |-> NoFields]
    /\ result = [r \in Reqs |-> NoResult]
    /\ response = [r \in Reqs |-> NoResponse]
    /\ calls = [r \in Reqs |-> <<>>]
    /\ trace = [r \in Reqs |-> <<>>]
    /\ waiting = [r \in Reqs |-> "none"]

NextExec ==
    \/ \E a \in LookupAnswers : Resolve("r1", a)
    \/ \E a \in StoreAnswers : CreateLead("r1", a)
    \/ \E a \in StoreAnswers : CreateActivity("r1", a)
    \/ \E a \in StoreAnswers : CreateTask("r1", a)
    \/ \E a \in StoreAnswers : UpdateStatus("r1", a)
    \/ \E a \in StoreAnswers : UpdateWrite("r1", a)

SpecExec == InitExec /\ [][NextExec]_vars

\* Two requests served by the one process (uvicorn.run(app), line 1380),
\* each about to call its executor: the handlers are coroutines, and every
\* await of a store call is a point where the other request may run.
PairLeads ==
    { BuildExtracted(LeadFields, d, "New lead from Sarah Johnson") :
        d \in { [f \in LeadFields |-> Typical(f)],
                [f \in {"customer_name"} |-> Typical(f)] } }

PairReasons == {None, "budget approved", "went elsewhere"}

PairUpdates ==
    { BuildExtracted(StatusUpdateFields,
                     [f \in StatusUpdateFields |->
                        CASE f = "lead_identifier" -> "Smith"
                          [] f = "new_status" -> status
                          [] f = "reason" -> reason],
                     "Mark Smith as qualified") :
        status \in {None, "Qualified", "Lost"}, reason \in PairReasons }

\* what one request of the pair is about to execute
PairWork ==
    { [intent |-> "new_lead", extracted |-> ex, lead |-> NoEntity] :
        ex \in PairLeads }
    \cup
    { [intent |-> "status_update", extracted |-> ex,
       lead |-> Entity(id, InitialLeads[id])] :
        ex \in PairUpdates, id \in LeadIds }

InitPair ==
    /\ env \in [ANTHROPIC_API_KEY : {TRUE}, AIRTABLE_API_KEY : BOOLEAN,
                CRM_BASE_ID : {TRUE}]
    /\ store = [leads |-> InitialLeads, created |-> <<>>]
    /\ \E work \in [Reqs -> PairWork] :
         /\ intent_result =
                [r \in Reqs |-> IntentResult(work[r].intent, 9, None, None)]
         /\ extracted = [r \in Reqs |-> work[r].extracted]
         /\ lead = [r \in Reqs |-> work[r].lead]
         /\ transcription =
                [r \in Reqs |-> work[r].extracted.raw_transcription]
    /\ pc = [r \in Reqs |-> "execute"]
    /\ endpoint = [r \in Reqs |-> "webhook"]
    /\ locals = [r \in Reqs |-> NoFields]
    /\ result = [r \in Reqs |-> NoResult]
    /\ response = [r \in Reqs |-> NoResponse]
    /\ calls = [r \in Reqs |-> <<>>]
    /\ trace = [r \in Reqs |-> <<>>]
    /\ waiting = [r \in Reqs |-> "none"]

NextPair ==
    \/ \E r \in Reqs, a \in StoreAnswers : CreateLead(r, a)
    \/ \E r \in Reqs, a \in StoreAnswers : UpdateStatus(r, a)
    \/ \E r \in Reqs, a \in StoreAnswers : UpdateWrite(r, a)

SpecPair == InitPair /\ [][NextPair]_vars

\* The event loop.  The handlers are coroutines of the one loop of the one
\* process (uvicorn.run(app), line 1380).  A request that has sent an
\* external call waits for its answer.  The store is called through
\* `await http_client.get/post/patch` (lines 529, 631, 731, 804, 819, 922):
\* the handler is suspended and the loop runs whatever else is ready.  The
\* transcription and the completions are called through the synchronous
\* clients OpenAI(...) and anthropic.Anthropic(...) (lines 64, 73) with no
\* await and no thread (lines 321-325, 341-348, 374, 412, 448, 479): the
\* call returns when the answer has come, and until then the loop's thread
\* is inside it.
CallKind(label) ==
    IF label \in {"transcribe", "classify", "extract"} THEN "blocking"
    ELSE "awaited"

\* the next step of request r starts with an external call
MakesCall(r) ==
    \/ pc[r] = "transcribe"
    \/ pc[r] \in {"classify", "extract"} /\ env.ANTHROPIC_API_KEY
    \/ pc[r] = "resolve" /\ AirtableConfigured(env)
    \/ /\ pc[r] = "execute" /\ AirtableConfigured(env)
       /\ intent_result[r].intent = "status_update"
             => /\ ~StatusRejected(extracted[r])
                /\ Truthy(extracted[r].reason)
    \/ pc[r] = "write"

\* the loop's thread is inside a synchronous call
LoopBusy == \E q \in Reqs : waiting[q] = "blocking"

\* the handler of r reaches its next external call and sends it
SendCall(r) ==
    /\ ~LoopBusy
    /\ waiting[r] = "none"
    /\ MakesCall(r)
    /\ waiting' = [waiting EXCEPT ![r] = CallKind(pc[r])]
    /\ UNCHANGED <<env, store, pc, endpoint, transcription, intent_result,
                   extracted, lead, locals, result, response, calls, trace>>

\* the loop can run the handler of r: no other request holds the thread,
\* and the call r waits on, if its step has one, was sent
Runs(r) ==
    /\ \A q \in Reqs \ {r} : waiting[q] # "blocking"
    /\ MakesCall(r) => waiting[r] # "none"

LoopUtterances == {"Mark Smith as qualified"}

LoopClassifyCompletions ==
    { Returns(<<Obj([intent |-> i, confidence |-> "0.9", reasoning |-> "why",
                     lead_identifier |-> None])>>) :
        i \in RoutedIntents \cup {"unknown"} }

LoopExtractCompletions(fields) ==
    { Returns(<<Obj([f \in fields |-> Typical(f)])>>) }

LoopLookupAnswers ==
    { [code |-> "200", body |-> "id", records |-> q] :
        q \in {<<>>, <<"recL1">>} }

LoopStoreAnswers ==
    { [code |-> "200", body |-> "id"], [code |-> "422", body |-> "id"] }

\* what the loop may do for request r
Turn(r) ==
    \/ \E ep \in RouterEndpoints, text \in LoopUtterances :
          Runs(r) /\ Receive(r, ep, text)
    \/ SendCall(r)
    \/ \E ok \in BOOLEAN, text \in LoopUtterances :
          Runs(r) /\ Transcribe(r, ok, text)
    \/ \E c \in LoopClassifyCompletions : Runs(r) /\ Classify(r, c)
    \/ /\ pc[r] = "extract"
       /\ \E c \in LoopExtractCompletions(ExtractorFields(ExtractedIntent(r))) :
             Runs(r) /\ Extract(r, c)
    \/ \E a \in LoopLookupAnswers : Runs(r) /\ Resolve(r, a)
    \/ \E a \in LoopStoreAnswers : Runs(r) /\ CreateLead(r, a)
    \/ \E a \in LoopStoreAnswers : Runs(r) /\ CreateActivity(r, a)
    \/ \E a \in LoopStoreAnswers : Runs(r) /\ CreateTask(r, a)
    \/ \E a \in LoopStoreAnswers : Runs(r) /\ UpdateStatus(r, a)
    \/ \E a \in LoopStoreAnswers : Runs(r) /\ UpdateWrite(r, a)

InitLoop ==
    /\ Init
    /\ env = [ANTHROPIC_API_KEY |-> TRUE, AIRTABLE_API_KEY |-> TRUE,
              CRM_BASE_ID |-> TRUE]

NextLoop == \E r \in Reqs : Turn(r)

SpecLoop == InitLoop /\ [][NextLoop]_vars

\* One request from its arrival to its response, under every configuration
\* and with calls that fail as well as calls that succeed.  The handler has
\* no loop and starts no background work: each step runs once the call it
\* waits on has returned or failed, which is what the fairness condition
\* asks of the services.  The completions carry just the members that
\* decide the handler's path.
LiveExtractCompletions(fields) ==
    { Raises,
      Returns(<<Obj([f \in fields |->
                       IF f \in {"lead_identifier", "new_status"}
                       THEN Typical(f) ELSE None])>>),
      Returns(<<Obj([f \in fields |->
                       IF f \in {"lead_identifier", "new_status", "reason"}
                       THEN Typical(f) ELSE None])>>) }

\* a request arrives at one of the two entry points
Arrive(r) ==
    \E ep \in RouterEndpoints, text \in Utterances :
        Runs(r) /\ Receive(r, ep, text)

\* the handler of r sends its next call, or runs on when the call is over
Serve(r) ==
    \/ SendCall(r)
    \/ \E ok \in BOOLEAN, text \in LoopUtterances :
          Runs(r) /\ Transcribe(r, ok, text)
    \/ \E c \in LoopClassifyCompletions \cup {Raises} :
          Runs(r) /\ Classify(r, c)
    \/ /\ pc[r] = "extract"
       /\ \E c \in LiveExtractCompletions(ExtractorFields(ExtractedIntent(r))) :
             Runs(r) /\ Extract(r, c)
    \/ \E a \in LoopLookupAnswers
                 \cup {[code |-> "raise", body |-> "id", records |-> <<>>]} :
          Runs(r) /\ Resolve(r, a)
    \/ \E a \in StoreAnswers : Runs(r) /\ CreateLead(r, a)
    \/ \E a \in StoreAnswers : Runs(r) /\ CreateActivity(r, a)
    \/ \E a \in StoreAnswers : Runs(r) /\ CreateTask(r, a)
    \/ \E a \in StoreAnswers : Runs(r) /\ UpdateStatus(r, a)
    \/ \E a \in StoreAnswers : Runs(r) /\ UpdateWrite(r, a)

NextLive == Arrive("r1") \/ Serve("r1")

SpecLive == Init /\ [][NextLive]_vars /\ WF_vars(Serve("r1"))

-----------------------------------------------------------------------------
(* Vocabulary of the properties.                                           *)

Ran(r, component) == component \in Range(trace[r])

Extractors == {ExtractorName(i) : i \in RoutedIntents}

ExecutorName(intent) ==
    CASE intent = "new_lead" -> "create_airtable_lead"
      [] intent = "call_note" -> "create_airtable_activity"
      [] intent = "status_update" -> "update_airtable_lead_status"
      [] intent = "task" -> "create_airtable_task"

Executors == {ExecutorName(i) : i \in RoutedIntents}

RanAny(r, components) == \E c \in components : Ran(r, c)

\* the kinds of external call
IsCompletion(c) == c.service = "anthropic"
IsClassifyCall(c) == c.service = "anthropic" /\ c.target = "classify"
IsExtractCall(c) == c.service = "anthropic" /\ c.target = "extract"
IsStoreCall(c) == c.service = "airtable"
IsLookup(c) ==
    c.service = "airtable" /\ c.method = "GET"
    /\ "filterByFormula" \in DOMAIN c.fields
IsRead(c) ==
    c.service = "airtable" /\ c.method = "GET"
    /\ "filterByFormula" \notin DOMAIN c.fields
IsWrite(c) == c.service = "airtable" /\ c.method \in {"POST", "PATCH"}
IsCreate(c) == c.service = "airtable" /\ c.method = "POST"

\* whether call c is of the named kind
Is(c, kind) ==
    CASE kind = "IsCompletion" -> IsCompletion(c)
      [] kind = "IsClassifyCall" -> IsClassifyCall(c)
      [] kind = "IsExtractCall" -> IsExtractCall(c)
      [] kind = "IsStoreCall" -> IsStoreCall(c)
      [] kind = "IsLookup" -> IsLookup(c)
      [] kind = "IsRead" -> IsRead(c)
      [] kind = "IsWrite" -> IsWrite(c)
      [] kind = "IsCreate" -> IsCreate(c)

\* the positions in the calls of request r that hold a call of the kind
CallsWhere(r, kind) == {i \in DOMAIN calls[r] : Is(calls[r][i], kind)}

\* the completion call of the kind was not made, raised, or its text holds
\* no JSON object
CompletionFailed(r, kind) ==
    \/ CallsWhere(r, kind) = {}
    \/ \E i \in CallsWhere(r, kind) :
          \/ ~calls[r][i].answer.ok
          \/ ~IsDict(strip_fences(calls[r][i].answer.text))

\* the JSON object the completion call of the kind answered
CompletionDict(r, kind) ==
    LET i == CHOOSE j \in CallsWhere(r, kind) : TRUE
    IN  strip_fences(calls[r][i].answer.text)[1].v

-----------------------------------------------------------------------------
(* The two routers side by side: request "r1" enters through wispr_webhook *)
(* (lines 982-1072), request "r2" through voice_to_crm (lines 1075-1268),  *)
(* with the same utterance.  "r1" takes a step when both are at the same   *)
(* await; "r2" then takes its steps, and every external call it makes is   *)
(* given the answer the same call of "r1" was given.  Reads come before    *)
(* writes in both, so both see the same store.                             *)

TwinAligned == pc["r1"] = pc["r2"]

\* the answers "r1" got from its calls of the kind; any answer when it made
\* no such call
TwinGiven(kind, all) ==
    IF CallsWhere("r1", kind) = {} THEN all
    ELSE {calls["r1"][i].answer : i \in CallsWhere("r1", kind)}

TwinLeads ==
    \/ \E text \in Utterances : TwinAligned /\ Receive("r1", "webhook", text)
    \/ \E c \in RouterClassifyCompletions : TwinAligned /\ Classify("r1", c)
    \/ /\ pc["r1"] = "extract"
       /\ \E c \in ExtractCompletions(ExtractorFields(ExtractedIntent("r1"))) :
             TwinAligned /\ Extract("r1", c)
    \/ \E a \in LookupAnswers : TwinAligned /\ Resolve("r1", a)
    \/ \E a \in StoreAnswers : TwinAligned /\ CreateLead("r1", a)
    \/ \E a \in StoreAnswers : TwinAligned /\ CreateActivity("r1", a)
    \/ \E a \in StoreAnswers : TwinAligned /\ CreateTask("r1", a)
    \/ \E a \in StoreAnswers : TwinAligned /\ UpdateStatus("r1", a)
    \/ \E a \in StoreAnswers : TwinAligned /\ UpdateWrite("r1", a)

TwinFollows ==
    \/ \E text \in Utterances : ~TwinAligned /\ Receive("r2", "voice_crm", text)
    \/ \E ok \in BOOLEAN :
          ~TwinAligned /\ Transcribe("r2", ok, transcription["r1"])
    \/ \E c \in TwinGiven("IsClassifyCall", RouterClassifyCompletions) :
          ~TwinAligned /\ Classify("r2", c)
    \/ /\ pc["r2"] = "extract"
       /\ \E c \in TwinGiven("IsExtractCall",
              ExtractCompletions(ExtractorFields(ExtractedIntent("r2")))) :
             ~TwinAligned /\ Extract("r2", c)
    \/ \E a \in TwinGiven("IsLookup", LookupAnswers) :
          ~TwinAligned /\ Resolve("r2", a)
    \/ \E a \in TwinGiven("IsWrite", StoreAnswers) :
          ~TwinAligned /\ CreateLead("r2", a)
    \/ \E a \in TwinGiven("IsWrite", StoreAnswers) :
          ~TwinAligned /\ CreateActivity("r2", a)
    \/ \E a \in TwinGiven("IsWrite", StoreAnswers) :
          ~TwinAligned /\ CreateTask("r2", a)
    \/ \E a \in TwinGiven("IsRead", StoreAnswers) :
          ~TwinAligned /\ UpdateStatus("r2", a)
    \/ \E a \in TwinGiven("IsWrite", StoreAnswers) :
          ~TwinAligned /\ UpdateWrite("r2", a)

NextTwin == TwinLeads \/ TwinFollows

SpecTwin == Init /\ [][NextTwin]_vars

-----------------------------------------------------------------------------

\* the store's API key or its base id is not set in the environment
StoreUnset == ~env.AIRTABLE_API_KEY \/ ~env.CRM_BASE_ID

(* C1.  classify_intent never raises: whenever the completion call fails   *)
(* (the API key is missing, the call raises) or its text does not parse    *)
(* into the expected record (no JSON object, or a member pydantic          *)
(* refuses), the result is intent "unknown", confidence 0.0 and the error  *)
(* text as message, and the caller gets it as a 200 response.              *)

C1_RecordRefused(d) ==
    \/ Get(d, "intent", "unknown") \in {None, BadJson}
    \/ Get(d, "confidence", "0.5") \notin Numbers
    \/ Get(d, "reasoning", None) = BadJson
    \/ Get(d, "lead_identifier", None) = BadJson

C1_Failed(r) ==
    \/ CompletionFailed(r, "IsClassifyCall")
    \/ C1_RecordRefused(CompletionDict(r, "IsClassifyCall"))

C1_ClassifyFailureYieldsUnknown ==
    \A r \in Reqs :
        Ran(r, "classify_intent") =>
            /\ response[r].http # 500
            /\ C1_Failed(r) =>
                  intent_result[r] = IntentResult("unknown", 0, ErrorText, None)

\* a completion that returned prose was classified as unknown / 0.0
C1_Witness ==
    \E r \in Reqs :
        /\ pc[r] = "done" /\ endpoint[r] = "test_classify"
        /\ \E i \in CallsWhere(r, "IsClassifyCall") :
              /\ calls[r][i].answer.ok
              /\ ~IsDict(strip_fences(calls[r][i].answer.text))
        /\ response[r] = Http(200, IntentResult("unknown", 0, ErrorText, None))

(* C2.  The decision classify_intent returns has an intent among the five  *)
(* fixed values and a confidence in [0,1].                                 *)

C2_IntentAndConfidenceInRange ==
    \A r \in Reqs :
        Ran(r, "classify_intent") =>
            /\ intent_result[r].intent \in RoutedIntents \cup {"unknown"}
            /\ intent_result[r].confidence \in 0..10

(* C3.  An extractor never raises: raw_transcription is the utterance it   *)
(* was given in every outcome, and when the completion call fails or its   *)
(* text does not parse into the expected members, every other member is    *)
(* empty.                                                                  *)

C3_MemberRefused(d) ==
    \E f \in DOMAIN d :
        \/ d[f] = BadJson
        \/ f = "duration_minutes" /\ d[f] \notin {None, "0", "30"}

C3_Failed(r) ==
    \/ CompletionFailed(r, "IsExtractCall")
    \/ C3_MemberRefused(CompletionDict(r, "IsExtractCall"))

C3_ExtractorsNeverRaise ==
    \A r \in Reqs :
        RanAny(r, Extractors) =>
            /\ extracted[r].raw_transcription = transcription[r]
            /\ C3_Failed(r) =>
                  \A f \in DOMAIN extracted[r] \ {"raw_transcription"} :
                      extracted[r][f] = None

\* the call-note extractor was answered with a member pydantic refuses and
\* returned the utterance alone
C3_Witness ==
    \E r \in Reqs :
        /\ Ran(r, "extract_call_note_fields")
        /\ transcription[r] # ""
        /\ ~CompletionFailed(r, "IsExtractCall")
        /\ C3_MemberRefused(CompletionDict(r, "IsExtractCall"))
        /\ extracted[r] = EmptyExtracted(CallNoteFields, transcription[r])

(* C4.  When the classifier returns "unknown" or any intent that is not    *)
(* one of the four routed ones, the router ends the request with a         *)
(* response without invoking an extractor, the resolver or an executor     *)
(* and without a store call; the webhook's response has status "skipped".  *)

C4_UnknownIntentIsSkipped ==
    \A r \in Reqs :
        ( /\ endpoint[r] \in RouterEndpoints
          /\ Ran(r, "classify_intent")
          /\ intent_result[r].intent \notin RoutedIntents )
        => /\ pc[r] = "done"
           /\ response[r].http = 200
           /\ Range(trace[r]) \subseteq {"transcribe_audio", "classify_intent"}
           /\ CallsWhere(r, "IsStoreCall") = {}
           /\ CallsWhere(r, "IsExtractCall") = {}
           /\ endpoint[r] = "webhook" => response[r].body.status = "skipped"
           /\ endpoint[r] = "voice_crm" => response[r].body.success = FALSE

\* the webhook skipped an utterance classified with an unrecognized intent
C4_Witness ==
    \E r \in Reqs :
        /\ endpoint[r] = "webhook" /\ pc[r] = "done"
        /\ intent_result[r].intent = "create_lead"
        /\ response[r].body.status = "skipped"

(* C5.  In a request handled by the router the components run in the order *)
(* classify, extract, resolve, execute: the classifier is invoked exactly  *)
(* once, at most one extractor is invoked and it is the one of the         *)
(* returned intent, the resolver runs only after the extractor, and an     *)
(* executor (the one of the intent) only after the resolver step when an   *)
(* identifier was extracted.                                               *)

C5_Stage(component) ==
    CASE component = "transcribe_audio" -> 0
      [] component = "classify_intent" -> 1
      [] component \in Extractors -> 2
      [] component = "find_lead_by_identifier" -> 3
      [] component \in Executors -> 4

\* the request has got past its classification step
C5_Classified(r) ==
    /\ pc[r] \notin {"idle", "transcribe", "classify"}
    /\ response[r].http # 500 \/ Len(trace[r]) > 1

C5_PipelineOrder ==
    \A r \in Reqs :
        endpoint[r] \in RouterEndpoints =>
            LET t == trace[r]
                intent == intent_result[r].intent
            IN  /\ \A i, j \in DOMAIN t :
                      i < j => C5_Stage(t[i]) < C5_Stage(t[j])
                /\ C5_Classified(r) => Ran(r, "classify_intent")
                /\ \A c \in Range(t) :
                      C5_Stage(c) > 1 => Ran(r, "classify_intent")
                /\ \A c \in Range(t) :
                      C5_Stage(c) > 2 => Ran(r, ExtractorName(intent))
                /\ \A c \in Range(t) :
                      c \in Extractors =>
                          /\ c = ExtractorName(intent)
                          /\ DOMAIN extracted[r] =
                                ExtractorFields(intent) \cup {"raw_transcription"}
                /\ \A c \in Range(t) :
                      c \in Executors =>
                          /\ c = ExecutorName(intent)
                          /\ ( intent # "new_lead"
                               /\ Truthy(extracted[r].lead_identifier) )
                             => Ran(r, "find_lead_by_identifier")

\* a status update went through all four stages
C5_Witness ==
    \E r \in Reqs :
        /\ pc[r] = "done" /\ endpoint[r] = "webhook"
        /\ trace[r] = <<"classify_intent", "extract_status_update_fields",
                        "find_lead_by_identifier",
                        "update_airtable_lead_status">>
        /\ result[r].status = "updated"

(* C6.  No step is retried: in one request the completion engine is called *)
(* at most twice (one classification, one extraction), the entity lookup   *)
(* is issued at most once, and at most one create or update is issued,     *)
(* whatever the answers are.                                               *)

C6_NoRetry ==
    \A r \in Reqs :
        /\ Cardinality(CallsWhere(r, "IsCompletion")) <= 2
        /\ Cardinality(CallsWhere(r, "IsClassifyCall")) <= 1
        /\ Cardinality(CallsWhere(r, "IsExtractCall")) <= 1
        /\ Cardinality(CallsWhere(r, "IsLookup")) <= 1
        /\ Cardinality(CallsWhere(r, "IsWrite")) <= 1

\* a request made both completion calls, a lookup that failed and a write
\* that the store refused, and ended there
C6_Witness ==
    \E r \in Reqs :
        /\ pc[r] = "done"
        /\ Cardinality(CallsWhere(r, "IsCompletion")) = 2
        /\ \E i \in CallsWhere(r, "IsLookup") : calls[r][i].answer.code # "200"
        /\ \E i \in CallsWhere(r, "IsWrite") : calls[r][i].answer.code # "200"

(* C7.  A status_update request ends with an error response, without       *)
(* update_airtable_lead_status being invoked and without a store write,    *)
(* (a) when no lead identifier was extracted, the resolver then not being  *)
(* called, and (b) when an identifier was extracted and the resolver       *)
(* returned no entity; the message of (b) names the identifier, the        *)
(* message of (a) is another one.                                          *)

C7_IsError(r) ==
    /\ pc[r] = "done"
    /\ response[r].http = 200
    /\ endpoint[r] = "webhook" => response[r].body.status = "error"
    /\ endpoint[r] = "voice_crm" => response[r].body.success = FALSE
    /\ ~Ran(r, "update_airtable_lead_status")
    /\ CallsWhere(r, "IsWrite") = {}
    /\ CallsWhere(r, "IsRead") = {}

C7_StatusUpdateNeedsLead ==
    \A r \in Reqs :
        ( /\ endpoint[r] \in RouterEndpoints
          /\ intent_result[r].intent = "status_update"
          /\ Ran(r, "extract_status_update_fields") )
        => /\ ~Truthy(extracted[r].lead_identifier) =>
                /\ C7_IsError(r)
                /\ ~Ran(r, "find_lead_by_identifier")
                /\ CallsWhere(r, "IsLookup") = {}
                /\ response[r].body.message =
                      NoIdentifierBody(endpoint[r], intent_result[r],
                                       transcription[r]).message
           /\ ( /\ Truthy(extracted[r].lead_identifier)
                /\ Ran(r, "find_lead_by_identifier")
                /\ lead[r] = NoEntity )
              => /\ C7_IsError(r)
                 /\ extracted[r].lead_identifier
                        \in Range(response[r].body.message)
                 /\ response[r].body.message #
                        NoIdentifierBody(endpoint[r], intent_result[r],
                                         transcription[r]).message

\* a lookup that listed no candidate ended a status update
C7_Witness ==
    \E r \in Reqs :
        /\ pc[r] = "done" /\ endpoint[r] = "webhook"
        /\ intent_result[r].intent = "status_update"
        /\ \E i \in CallsWhere(r, "IsLookup") :
              calls[r][i].answer.code = "200" /\ calls[r][i].answer.records = <<>>
        /\ response[r].body.message = <<"Lead not found:", "Smith">>

(* C8.  For call_note and task requests an unresolved entity is not an     *)
(* error: the executor is invoked whether or not a lead was resolved, and  *)
(* the create it sends holds the link field ("Related Lead" for an         *)
(* activity, "Leads" for a task) exactly when the resolver returned an     *)
(* entity, the field then holding that entity's id.                        *)

C8_LinkField(intent) == IF intent = "call_note" THEN "Related Lead" ELSE "Leads"

C8_Table(intent) ==
    IF intent = "call_note" THEN ACTIVITIES_TABLE_ID ELSE TASKS_TABLE_ID

C8_Finished(r) ==
    /\ endpoint[r] \in RouterEndpoints
    /\ intent_result[r].intent \in {"call_note", "task"}
    /\ pc[r] = "done"

C9_EveryOtherStatusRejected ==
    \A r \in Reqs :
        ( /\ Ran(r, "update_airtable_lead_status")
          /\ extracted[r].new_status \notin valid_statuses )
        => /\ CallsWhere(r, "IsRead") = {}
           /\ CallsWhere(r, "IsWrite") = {}
           /\ pc[r] = "done" => result[r].status = "error"

(* C10.  When the store's API key or base id is unset, each executor       *)
(* returns status "error" with an empty fields_populated and issues no     *)
(* network call, and the resolver returns no entity without a network      *)
(* call.                                                                   *)

C10_UnconfiguredStoreIsNotCalled ==
    \A r \in Reqs :
        StoreUnset =>
            /\ CallsWhere(r, "IsStoreCall") = {}
            /\ RanAny(r, Executors) =>
                  /\ pc[r] = "done"
                  /\ result[r].status = "error"
                  /\ result[r].fields_populated = <<>>
                  /\ result[r].record_id = None
            /\ Ran(r, "find_lead_by_identifier") => lead[r] = NoEntity

\* update_airtable_lead_status was called without a base id and returned
\* the configuration error
C10_Witness ==
    \E r \in Reqs :
        /\ env.AIRTABLE_API_KEY /\ ~env.CRM_BASE_ID
        /\ Ran(r, "update_airtable_lead_status")
        /\ result[r] = ConfigMissing("status_update")
        /\ calls[r] = <<>>

(* C11.  Every result an executor returns with status "created" or         *)
(* "updated" carries a record_id that is not null, whatever body the store *)
(* sends with its success status.                                          *)

C11_SuccessCarriesRecordId ==
    \A r \in Reqs :
        result[r].status \in {"created", "updated"} =>
            result[r].record_id # None

(* C12.  Whenever an executor issues a store write, the names in its       *)
(* fields_populated, with the markers "(default)", "(default: tomorrow)"   *)
(* and "(mapped to Other)" removed, are exactly the keys of the fields     *)
(* object it sent, each listed once.                                       *)

\* a name of fields_populated without its marker
C12_FieldOf(label) ==
    CASE label = "Lead Source (mapped to Other)" -> "Lead Source"
      [] label = "Activity Type (default)" -> "Activity Type"
      [] label = "Task Type (default)" -> "Task Type"
      [] label = "Priority (default)" -> "Priority"
      [] label = "Due Date (default: tomorrow)" -> "Due Date"
      [] OTHER -> label

C12_FieldsPopulatedAreTheFieldsSent ==
    \A r \in Reqs :
        \A i \in CallsWhere(r, "IsWrite") :
            LET fp == result[r].fields_populated
            IN  /\ {C12_FieldOf(fp[k]) : k \in DOMAIN fp}
                      = DOMAIN calls[r][i].fields
                /\ \A j, k \in DOMAIN fp :
                      j # k => C12_FieldOf(fp[j]) # C12_FieldOf(fp[k])

\* a task was created with a defaulted due date, a link to the lead and
\* extracted notes that the transcription was appended to
C12_Witness ==
    \E r \in Reqs :
        \E i \in CallsWhere(r, "IsCreate") :
            /\ "Due Date (default: tomorrow)" \in Range(result[r].fields_populated)
            /\ "Leads" \in DOMAIN calls[r][i].fields
            /\ Truthy(extracted[r].notes)
            /\ Len(calls[r][i].fields["Notes"]) > 3

(* C13.  In every executor a non-success status or an exception on any     *)
(* store call it makes, the notes read of update_airtable_lead_status      *)
(* included, yields a returned result with status "error" and a null       *)
(* record_id: the executor never raises to its caller.                     *)

\* the store calls the executors make: their writes and the notes read
C13_ExecutorCalls(r) == CallsWhere(r, "IsRead") \cup CallsWhere(r, "IsWrite")

C13_StoreFailureYieldsErrorResult ==
    \A r \in Reqs :
        ( /\ pc[r] = "done"
          /\ \E i \in C13_ExecutorCalls(r) : calls[r][i].answer.code # "200" )
        => /\ response[r].http = 200
           /\ result[r].status = "error"
           /\ result[r].record_id = None

(* C14.  Every webhook request that carries a transcription ends with a    *)
(* 200 response whose body has a "status" member, whatever the classifier, *)
(* the extractors, the resolver and the store do.                          *)

C14_WebhookAlwaysAnswersWithStatus ==
    \A r \in Reqs :
        (endpoint[r] = "webhook" /\ pc[r] = "done")
        => /\ response[r].http = 200
           /\ "status" \in DOMAIN response[r].body

(* C15.  find_lead_by_identifier never raises and returns no entity alike  *)
(* when the lookup lists no candidate, when the store answers with a       *)
(* non-success status, and when the call or the parsing of its answer      *)
(* throws.                                                                 *)

\* the lookup found nothing or failed
C15_NothingFound(a) ==
    a.code # "200" \/ a.body = "malformed" \/ a.records = <<>>

C15_ResolverFailuresYieldNoEntity ==
    \A r \in Reqs :
        /\ \A i \in CallsWhere(r, "IsLookup") :
              C15_NothingFound(calls[r][i].answer) => lead[r] = NoEntity
        /\ ( /\ trace[r] # <<>>
             /\ trace[r][Len(trace[r])] = "find_lead_by_identifier" )
           => response[r].http # 500

\* the lookup of a call note's lead raised, and the router went on to the
\* executor without an entity
C15_Witness ==
    \E r \in Reqs :
        /\ intent_result[r].intent = "call_note"
        /\ \E i \in CallsWhere(r, "IsLookup") : calls[r][i].answer.code = "raise"
        /\ lead[r] = NoEntity
        /\ pc[r] = "execute"

(* C16.  Entity resolution is read-only: find_lead_by_identifier issues no *)
(* create and no update, and in a request whose lookup fails or finds      *)
(* nothing no record of the leads table is created or written (an          *)
(* unresolved call_note or task creates only an activity or a task, an     *)
(* unresolved status_update writes nothing).                               *)

\* the writes of request r that address the leads table
C16_LeadWrites(r) ==
    {i \in CallsWhere(r, "IsWrite") : calls[r][i].table = LEADS_TABLE_ID}

\* the resolver was the last component request r ran
C16_JustResolved(r) ==
    trace[r] # <<>> /\ trace[r][Len(trace[r])] = "find_lead_by_identifier"

C16_ResolutionIsReadOnly ==
    \A r \in Reqs :
        /\ C16_JustResolved(r) =>
              /\ CallsWhere(r, "IsWrite") = {}
              /\ store = [leads |-> InitialLeads, created |-> <<>>]
        /\ (Ran(r, "find_lead_by_identifier") /\ lead[r] = NoEntity) =>
              /\ C16_LeadWrites(r) = {}
              /\ store.leads = InitialLeads
              /\ \A k \in DOMAIN store.created :
                    store.created[k].table # LEADS_TABLE_ID
              /\ intent_result[r].intent = "status_update" =>
                    CallsWhere(r, "IsWrite") = {}

\* the lookup of a call note's lead listed no candidate and the activity
\* was created: the store holds one more record, not in the leads table
C16_Witness ==
    \E r \in Reqs :
        /\ \E i \in CallsWhere(r, "IsLookup") :
              /\ calls[r][i].answer.code = "200"
              /\ calls[r][i].answer.records = <<>>
        /\ lead[r] = NoEntity
        /\ Len(store.created) = 1
        /\ store.created[1].table = ACTIVITIES_TABLE_ID

(* C17.  In the audio entry points (voice_to_crm, preview_lead,            *)
(* transcribe_only) a transcription failure is the only failure that ends  *)
(* the request as a server error, and then no classification, extraction,  *)
(* resolution or store call was made for the request.                      *)

\* the transcription of request r failed
C17_TranscriptionFailed(r) ==
    \E i \in DOMAIN calls[r] :
        calls[r][i].service = "openai" /\ ~calls[r][i].answer.ok

C17_OnlyTranscriptionFailsHard ==
    \A r \in Reqs :
        (endpoint[r] \in AudioEndpoints /\ response[r].http = 500)
        => /\ C17_TranscriptionFailed(r)
           /\ trace[r] = <<"transcribe_audio">>
           /\ CallsWhere(r, "IsCompletion") = {}
           /\ CallsWhere(r, "IsStoreCall") = {}

(* C18.  Every terminal response of the router for the four intents, on    *)
(* success and on every error path (the status_update early exits "no      *)
(* identifier" and "not found" included), carries the same envelope        *)
(* members: status, intent, confidence, record id, record name,            *)
(* fields-populated list, message and external link.                       *)

\* the envelope as each entry point names its members
C18_Envelope(ep) ==
    {IF ep = "webhook" THEN "status" ELSE "success",
     "intent", "intent_confidence", "record_id", "record_name",
     "fields_populated", "message", "airtable_url"}

C18_StableEnvelope ==
    \A r \in Reqs :
        ( /\ endpoint[r] \in RouterEndpoints
          /\ pc[r] = "done" /\ response[r].http = 200
          /\ intent_result[r].intent \in RoutedIntents )
        => C18_Envelope(endpoint[r]) \subseteq DOMAIN response[r].body

(* C19.  The webhook's response to an utterance that leads to a lead       *)
(* creation reports intent "create_lead" and carries an extracted_fields   *)
(* object that holds the extracted customer name.                          *)

C19_WebhookReportsCreateLead ==
    \A r \in Reqs :
        ( /\ endpoint[r] = "webhook" /\ pc[r] = "done"
          /\ Ran(r, "create_airtable_lead") )
        => /\ response[r].body.intent = "create_lead"
           /\ "extracted_fields" \in DOMAIN response[r].body
           /\ response[r].body.extracted_fields.customer_name
                 = extracted[r].customer_name

(* C20.  The preview request never mutates the store (no create, no update *)
(* on any path), and for an utterance the classifier classifies as a new   *)
(* lead it returns success with the extracted lead fields.                 *)

C20_PreviewShowsNewLead ==
    \A r \in Reqs :
        endpoint[r] = "preview" =>
            /\ CallsWhere(r, "IsWrite") = {}
            /\ store = [leads |-> InitialLeads, created |-> <<>>]
            /\ (pc[r] = "done" /\ intent_result[r].intent = "new_lead") =>
                  /\ response[r].body.success
                  /\ "extracted_fields" \in DOMAIN response[r].body

(* C21.  The confirm request performs the lead creation from the fields    *)
(* and text it is given: it calls neither the transcription nor the        *)
(* completion engine, it invokes create_airtable_lead exactly once (hence  *)
(* at most one create call), and the created record's notes carry the      *)
(* supplied transcription.                                                 *)

C21_Invocations(r) ==
    {i \in DOMAIN trace[r] : trace[r][i] = "create_airtable_lead"}

C21_ConfirmCreatesOnce ==
    \A r \in Reqs :
        (endpoint[r] = "confirm" /\ pc[r] \in {"done", "failed"}) =>
            /\ \A i \in DOMAIN calls[r] :
                  calls[r][i].service \notin {"openai", "anthropic"}
            /\ Cardinality(C21_Invocations(r)) = 1
            /\ Cardinality(CallsWhere(r, "IsCreate")) <= 1
            /\ \A i \in CallsWhere(r, "IsCreate") :
                  transcription[r]
                      \in Range(calls[r][i].fields["Initial Notes"])

(* C22.  Every fields object that create_airtable_lead sends to the store  *)
(* has Status = "New" regardless of the extracted fields, and an "Initial  *)
(* Notes" value that contains the verbatim utterance placed after any      *)
(* extracted initial notes (the extracted notes are kept, not              *)
(* overwritten).  As stated: exactly one create call is issued per         *)
(* invocation.  As the code has it: exactly one when the store's API key   *)
(* and base id are set, none when either is unset.                         *)

C22_LeadSent(r, c) ==
    LET notes == c.fields["Initial Notes"]
    IN  /\ c.table = LEADS_TABLE_ID
        /\ c.fields["Status"] = "New"
        /\ notes[Len(notes)] = extracted[r].raw_transcription
        /\ IF Truthy(extracted[r].initial_notes)
           THEN notes[1] = extracted[r].initial_notes /\ Len(notes) > 1
           ELSE notes[1] = Sep

C22_Invoked(r) == Ran(r, "create_airtable_lead") /\ pc[r] = "done"

C23_ClosedSet ==
    {"Referral", "Website", "Walk-in", "Repeat Customer", "Trade Show",
     "Social Media", "Other"}

C23_LeadCreates(r) ==
    {i \in CallsWhere(r, "IsCreate") : calls[r][i].table = LEADS_TABLE_ID}

C23_LeadSourceInClosedSet ==
    \A r \in Reqs :
        (pc[r] = "done" /\ Ran(r, "create_airtable_lead")) =>
            \A i \in C23_LeadCreates(r) :
                LET sent == calls[r][i].fields
                    source == extracted[r].lead_source
                IN  /\ "Lead Source" \in DOMAIN sent
                          => sent["Lead Source"] \in C23_ClosedSet
                    /\ source \in C23_ClosedSet
                          => /\ "Lead Source" \in DOMAIN sent
                             /\ sent["Lead Source"] = source
                    /\ (Truthy(source) /\ source \notin C23_ClosedSet)
                          => /\ "Lead Source" \in DOMAIN sent
                             /\ sent["Lead Source"] = "Other"
                             /\ "Lead Source (mapped to Other)"
                                   \in Range(result[r].fields_populated)

C23_Witness ==
    \E r \in Reqs :
        /\ pc[r] = "done" /\ Ran(r, "create_airtable_lead")
        /\ extracted[r].lead_source = "Google"
        /\ \E i \in C23_LeadCreates(r) :
              calls[r][i].fields["Lead Source"] = "Other"
        /\ result[r].status = "created"

(* C24.  Every fields object that create_airtable_task sends has all of    *)
(* Task Type, Due Date, Priority, Status and Notes: Task Type is the       *)
(* extracted value or "Lead Follow-up", Due Date is the extracted value or *)
(* the server-local date plus one day, Priority is the extracted value or  *)
(* "Medium", Status is always "Not Started", Notes contains the verbatim   *)
(* utterance appended after any extracted notes; each defaulted field is   *)
(* listed in fields_populated with its default marker.                     *)

C24_TaskCreates(r) ==
    {i \in CallsWhere(r, "IsCreate") : calls[r][i].table = TASKS_TABLE_ID}

\* the member is the extracted value, or the default listed with its marker
C24_Defaulted(r, sent, key, value, default, marker) ==
    IF Truthy(value)
    THEN sent[key] = value
    ELSE /\ sent[key] = default
         /\ marker \in Range(result[r].fields_populated)

C24_TaskDefaults ==
    \A r \in Reqs :
        (pc[r] = "done" /\ Ran(r, "create_airtable_task")) =>
            \A i \in C24_TaskCreates(r) :
                LET sent == calls[r][i].fields
                    task == extracted[r]
                IN  /\ {"Task Type", "Due Date", "Priority", "Status",
                         "Notes"} \subseteq DOMAIN sent
                    /\ C24_Defaulted(r, sent, "Task Type", task.task_type,
                                     "Lead Follow-up", "Task Type (default)")
                    /\ C24_Defaulted(r, sent, "Due Date", task.due_date,
                                     Tomorrow, "Due Date (default: tomorrow)")
                    /\ C24_Defaulted(r, sent, "Priority", task.priority,
                                     "Medium", "Priority (default)")
                    /\ sent["Status"] = "Not Started"
                    /\ sent["Notes"][Len(sent["Notes"])]
                          = task.raw_transcription
                    /\ Truthy(task.notes)
                          => /\ sent["Notes"][1] = task.notes
                             /\ Len(sent["Notes"]) > 1

C24_Witness ==
    \E r \in Reqs :
        /\ pc[r] = "done" /\ Ran(r, "create_airtable_task")
        /\ ~Truthy(extracted[r].due_date)
        /\ Truthy(extracted[r].notes)
        /\ \E i \in C24_TaskCreates(r) :
              calls[r][i].fields["Due Date"] = Tomorrow

(* C25.  Every fields object that create_airtable_activity sends has an    *)
(* "Activity Type" (the extracted value, or "Call" listed as "Activity     *)
(* Type (default)" when none was extracted) and a "Notes" value that       *)
(* contains the verbatim utterance, appended after the extracted notes     *)
(* when there are any; "Notes" appears exactly once in fields_populated.   *)

C25_ActivityCreates(r) ==
    {i \in CallsWhere(r, "IsCreate") :
        calls[r][i].table = ACTIVITIES_TABLE_ID}

C25_ActivityTypeAndNotes ==
    \A r \in Reqs :
        (pc[r] = "done" /\ Ran(r, "create_airtable_activity")) =>
            \A i \in C25_ActivityCreates(r) :
                LET sent == calls[r][i].fields
                    note == extracted[r]
                    listed == result[r].fields_populated
                IN  /\ {"Activity Type", "Notes"} \subseteq DOMAIN sent
                    /\ IF Truthy(note.activity_type)
                       THEN sent["Activity Type"] = note.activity_type
                       ELSE /\ sent["Activity Type"] = "Call"
                            /\ "Activity Type (default)" \in Range(listed)
                    /\ sent["Notes"][Len(sent["Notes"])]
                          = note.raw_transcription
                    /\ Truthy(note.notes)
                          => /\ sent["Notes"][1] = note.notes
                             /\ Len(sent["Notes"]) > 1
                    /\ Cardinality({j \in DOMAIN listed :
                                       listed[j] = "Notes"}) = 1

C25_Witness ==
    \E r \in Reqs :
        /\ pc[r] = "done" /\ Ran(r, "create_airtable_activity")
        /\ ~Truthy(extracted[r].activity_type)
        /\ \E i \in C25_ActivityCreates(r) :
              calls[r][i].fields["Activity Type"] = "Call"

(* C26.  Calling create_airtable_lead twice with identical fields yields,  *)
(* when both calls succeed, two distinct records: no deduplication or      *)
(* lookup of an existing lead happens before a create.  As stated: the two *)
(* invocations issue two create calls.  As the code has it: two when the   *)
(* store's API key and base id are set, none when either is unset.         *)

C26_CalledTwice(r, q) ==
    /\ r # q
    /\ pc[r] = "done" /\ pc[q] = "done"
    /\ Ran(r, "create_airtable_lead") /\ Ran(q, "create_airtable_lead")
    /\ extracted[r] = extracted[q]

C26_TwoRecords(r, q) ==
    /\ CallsWhere(r, "IsStoreCall") = CallsWhere(r, "IsCreate")
    /\ \A i \in CallsWhere(r, "IsCreate"), j \in CallsWhere(q, "IsCreate") :
          calls[r][i].fields = calls[q][j].fields
    /\ (result[r].status = "created" /\ result[q].status = "created")
          => /\ Len(store.created) = 2
             /\ store.created[1].id # store.created[2].id
             /\ store.created[1].fields = store.created[2].fields

C28_Updates(r) ==
    {i \in CallsWhere(r, "IsWrite") : calls[r][i].method = "PATCH"}

C28_ReasonGiven(r) ==
    /\ pc[r] = "done"
    /\ Ran(r, "update_airtable_lead_status")
    /\ ~StoreUnset
    /\ Truthy(extracted[r].reason)
    /\ extracted[r].new_status \in valid_statuses

C28_ReasonAlwaysWritten ==
    \A r \in Reqs :
        C28_ReasonGiven(r) =>
            /\ Cardinality(CallsWhere(r, "IsRead")) = 1
            /\ Cardinality(C28_Updates(r)) = 1
            /\ \A i \in CallsWhere(r, "IsRead"), j \in C28_Updates(r) :
                  /\ i < j
                  /\ calls[r][j].fields["Status"] = extracted[r].new_status
                  /\ "Initial Notes" \in DOMAIN calls[r][j].fields
                  /\ extracted[r].reason
                        \in Range(calls[r][j].fields["Initial Notes"])
            /\ result[r].status = "updated"
                  => "Initial Notes" \in Range(result[r].fields_populated)

(* C29.  The status-update notes append is not atomic: with two concurrent *)
(* status_update requests carrying reasons for the same entity, there is   *)
(* an interleaving in which both updates succeed and the entity's final    *)
(* notes lack one of the two appended texts (lost update, last write       *)
(* wins).  Every accepted update leaves the entity's notes equal to the    *)
(* notes its request read followed by its own annotation, whatever was     *)
(* written in between (the theorem); the state with a lost annotation is   *)
(* reached (the witness).                                                  *)

C29_NotesWritten(r) ==
    /\ pc[r] = "write" /\ pc'[r] = "done"
    /\ result'[r].status = "updated"
    /\ "Initial Notes" \in DOMAIN locals[r].fields

C29_LastWriteWins ==
    [][\A r \in Reqs :
          C29_NotesWritten(r) =>
              store'.leads[lead[r].id]["Initial Notes"]
                  = locals[r].fields["Initial Notes"]]_vars

C29_Appended(r) ==
    /\ pc[r] = "done"
    /\ result[r].status = "updated"
    /\ "Initial Notes" \in Range(result[r].fields_populated)

C29_Witness ==
    \E r, q \in Reqs :
        /\ r # q
        /\ C29_Appended(r) /\ C29_Appended(q)
        /\ lead[r].id = lead[q].id
        /\ extracted[r].reason # extracted[q].reason
        /\ extracted[r].reason
              \notin Range(store.leads[lead[r].id]["Initial Notes"])
        /\ extracted[q].reason
              \in Range(store.leads[lead[r].id]["Initial Notes"])

(* C30.  The status field is race-free under concurrent status_update      *)
(* requests on the same entity: in every interleaving, after all requests  *)
(* have finished the entity's Status equals the new_status of the request  *)
(* whose update call the store applied last, and the value written never   *)
(* depends on what the request read.  Stated step by step: every update    *)
(* call the store applies leaves the entity's Status equal to the          *)
(* new_status of the request that sent it.                                 *)

C30_Applied(r) ==
    /\ pc[r] = "write" /\ pc'[r] = "done"
    /\ result'[r].status = "updated"

C30_StatusIsLastApplied ==
    [][\A r \in Reqs :
          C30_Applied(r) =>
              store'.leads[lead[r].id]["Status"] = extracted[r].new_status]_vars

(* C27.  A slow external call (transcription, completion, or store         *)
(* read/write) made by one request does not stall unrelated requests:      *)
(* while one request waits on an external call, any other in-flight        *)
(* request can still take its next pipeline step.                          *)

C27_InFlight(q) == pc[q] \notin {"idle", "done"}

C27_NoRequestStalls ==
    \A r, q \in Reqs :
        (r # q /\ waiting[r] # "none" /\ C27_InFlight(q))
            => ENABLED Turn(q)

(* C31.  Whenever update_airtable_lead_status returns status "updated",    *)
(* the update it sent to the store contained a Status field whose value is *)
(* one of the five allowed statuses; it never reports "updated" after      *)
(* sending an update that changes no status.                               *)

C31_Sent(r) ==
    {i \in DOMAIN calls[r] :
        calls[r][i].service = "airtable" /\ calls[r][i].method = "PATCH"}

C31_UpdatedMeansStatusSent ==
    \A r \in Reqs :
        ( /\ Ran(r, "update_airtable_lead_status")
          /\ pc[r] = "done"
          /\ result[r].status = "updated" )
        => /\ C31_Sent(r) # {}
           /\ \A i \in C31_Sent(r) :
                 /\ "Status" \in DOMAIN calls[r][i].fields
                 /\ calls[r][i].fields["Status"] \in valid_statuses

(* C32.  The resolver's lookup requests at most 5 candidates and, when the *)
(* store returns one or more, the resolver returns the first candidate in  *)
(* the store's order (its id, name and fields) whatever the other          *)
(* candidates are; it never returns a candidate at another position.  As   *)
(* stated: the resolver issues a single lookup.  As the code has it: a     *)
(* single lookup when the store's API key and base id are set, none when   *)
(* either is unset.                                                        *)

C32_Resolved(r) ==
    Ran(r, "find_lead_by_identifier") /\ pc[r] # "resolve"

C32_FirstCandidate(r) ==
    \A i \in CallsWhere(r, "IsLookup") :
        LET asked == calls[r][i].fields
            answer == calls[r][i].answer
        IN  /\ asked.maxRecords = "5"
            /\ ( /\ answer.code = "200" /\ answer.body # "malformed"
                 /\ answer.records # <<>> )
               => /\ lead[r].id = answer.records[1]
                  /\ lead[r].fields = InitialLeads[answer.records[1]]
                  /\ lead[r].name =
                        Get(InitialLeads[answer.records[1]], "Customer Name",
                            "Unknown")

C33_Parses(r) ==
    /\ Ran(r, "classify_intent")
    /\ ~CompletionFailed(r, "IsClassifyCall")
    /\ LET d == CompletionDict(r, "IsClassifyCall")
       IN  /\ "intent" \in DOMAIN d => d["intent"] \notin {None, BadJson}
           /\ "confidence" \in DOMAIN d => d["confidence"] \in Numbers
           /\ Get(d, "reasoning", None) # BadJson
           /\ Get(d, "lead_identifier", None) # BadJson

C33_MissingMembersDefaulted ==
    \A r \in Reqs :
        C33_Parses(r) =>
            LET d == CompletionDict(r, "IsClassifyCall")
                ir == intent_result[r]
            IN  /\ ir.intent = (IF "intent" \in DOMAIN d THEN d["intent"]
                                ELSE "unknown")
                /\ ir.confidence =
                      (IF "confidence" \in DOMAIN d
                       THEN ToFloat(d["confidence"]) ELSE 5)
                /\ ir.message = Get(d, "reasoning", None)
                /\ ir.lead_identifier = Get(d, "lead_identifier", None)

C33_Witness ==
    \E r \in Reqs :
        /\ C33_Parses(r)
        /\ DOMAIN CompletionDict(r, "IsClassifyCall") = {"intent", "reasoning"}
        /\ intent_result[r].intent = "task"
        /\ intent_result[r].confidence = 5

(* C34.  A non-numeric duration_minutes in the model's call-note response  *)
(* is treated as an absent duration: extract_call_note_fields does not     *)
(* raise and returns the same result it returns for the identical response *)
(* with duration_minutes null, that is, the other extracted fields are     *)
(* kept and only the duration is empty.                                    *)

\* the call-note response parsed, its duration is a text that is no number
\* and every other member is a string or null
C34_DurationNotNumeric(r) ==
    /\ Ran(r, "extract_call_note_fields")
    /\ ~CompletionFailed(r, "IsExtractCall")
    /\ LET d == CompletionDict(r, "IsExtractCall")
       IN  /\ "duration_minutes" \in DOMAIN d
           /\ d["duration_minutes"] = "half an hour"
           /\ \A f \in DOMAIN d \ {"duration_minutes"} : d[f] # BadJson

C34_BadDurationIsAbsentDuration ==
    \A r \in Reqs :
        C34_DurationNotNumeric(r) =>
            LET d == CompletionDict(r, "IsExtractCall")
            IN  extracted[r] =
                    [f \in CallNoteFields \cup {"raw_transcription"} |->
                        IF f = "raw_transcription" THEN transcription[r]
                        ELSE IF f = "duration_minutes" THEN None
                        ELSE Get(d, f, None)]

(* C35.  For the same transcription and the same answers from the          *)
(* completion engine and the store, the webhook entry point and the        *)
(* voice-crm entry point (after its transcription step) perform the same   *)
(* sequence of classifier, extractor, resolver and executor calls with the *)
(* same arguments and leave the store in the same state.                   *)

\* the transcription step of the voice request returned the text
C35_Heard ==
    /\ calls["r2"] # <<>>
    /\ calls["r2"][1].service = "openai"
    /\ calls["r2"][1].answer.ok

\* the leads table as the one update call of r leaves it
C35_LeadsAfter(r) ==
    LET sent == {i \in DOMAIN calls[r] :
                    /\ calls[r][i].method = "PATCH"
                    /\ calls[r][i].answer.code = "200"}
    IN  IF sent = {} THEN InitialLeads
        ELSE LET c == calls[r][CHOOSE i \in sent : TRUE]
             IN  [InitialLeads EXCEPT ![c.target] = Merge(@, c.fields)]

C35_SameSteps ==
    /\ trace["r2"] = <<"transcribe_audio">> \o trace["r1"]
    /\ Tail(calls["r2"]) = calls["r1"]
    /\ transcription["r2"] = transcription["r1"]
    /\ intent_result["r2"] = intent_result["r1"]
    /\ extracted["r2"] = extracted["r1"]
    /\ lead["r2"] = lead["r1"]
    /\ locals["r2"] = locals["r1"]
    /\ result["r2"].status = result["r1"].status
    /\ result["r2"].fields_populated = result["r1"].fields_populated

C35_SameStore ==
    /\ store.leads = C35_LeadsAfter("r1")
    /\ store.leads = C35_LeadsAfter("r2")
    /\ Len(store.created) \in {0, 2}
    /\ Len(store.created) = 2
          => /\ store.created[1].table = store.created[2].table
             /\ store.created[1].fields = store.created[2].fields

C36_Answered(r) == pc[r] = "done" /\ response[r] # NoResponse

\* the response is given once, by the step that ends the handler, and a
\* handler that has ended sends nothing more
C36_OnceAndLast(r) ==
    /\ response'[r] # response[r]
          => response[r] = NoResponse /\ pc[r] # "done" /\ pc'[r] = "done"
    /\ pc[r] = "done"
          => /\ pc'[r] = "done"
             /\ calls'[r] = calls[r]
             /\ store' = store
             /\ waiting'[r] = "none"

C36_EveryRequestAnswered ==
    /\ (pc["r1"] # "idle") ~> C36_Answered("r1")
    /\ [](pc["r1"] = "done" => response["r1"] # NoResponse)
    /\ [][C36_OnceAndLast("r1")]_vars

C36_Witness ==
    /\ C36_Answered("r1")
    /\ endpoint["r1"] = "voice_crm"
    /\ trace["r1"] = <<"transcribe_audio", "classify_intent",
                       "extract_status_update_fields",
                       "find_lead_by_identifier",
                       "update_airtable_lead_status">>
    /\ Len(calls["r1"]) = 6
    /\ calls["r1"][6].answer.code = "raise"
    /\ response["r1"].http = 200

====
